---- MODULE Spec2Model ----
(***************************************************************************)
(* hack-dance/assistants: the server-side Route Dispatcher                 *)
(* (createAssistantRoutes) and the client-side ThreadManager, as state     *)
(* machines.                                                               *)
(***************************************************************************)
EXTENDS Integers, Sequences, FiniteSets, TLC

(***************************************************************************)
(* Part 1. Route Dispatcher                                                *)
(***************************************************************************)

\* The indexes of params the dispatcher reads (determineRouteObject reads
\* 0, 1, 2 and 4, extractArgs 1 and 3): a longer path is routed as its
\* first five segments, so the model sends paths of up to that length.
ParamIndexes == 0 .. 4

\* JavaScript's undefined, for an absent segment or argument.
Undefined == "undefined"

\* Path segments after /assistants/{assistantId}/: the markers and action
\* names the routes use, "latest" (which the manager asks for), and an id.
Segments ==
  {"threads", "files", "runs", "_", "messages", "functions", "status",
   "process-fns", "latest", "id1"}

RECURSIVE SeqsUpTo(_, _)
SeqsUpTo(S, n) ==
  IF n = 0 THEN {<<>>}
  ELSE LET shorter == SeqsUpTo(S, n - 1)
       IN  shorter \cup {Append(p, s) : p \in {q \in shorter : Len(q) = n - 1}, s \in S}

Paths == SeqsUpTo(Segments, Cardinality(ParamIndexes))

Methods == {"GET", "POST", "DELETE"}

\* What a POST carries: a JSON document, a JSON document with a member
\* assistant_id, a multipart form with field `file`, text that is not JSON,
\* or nothing.  Other methods carry no body.
BodyKinds == {"json", "json+assistant_id", "multipart", "garbage", "none"}
PostBodies == {"json", "json+assistant_id", "multipart", "garbage"}

AssistantIds == {"asst1"}

\* The assistant a body's assistant_id member names.
BodyAssistantId == "asst2"

\* A request: method, path segments (context.params.params), body and the
\* assistant id of the route context.  Only a POST carries a body.
Requests ==
  { r \in [method : Methods, params : Paths, body : BodyKinds,
           assistantId : AssistantIds] :
      IF r.method = "POST" THEN r.body \in PostBodies ELSE r.body = "none" }

NoRequest ==
  [method |-> "none", params |-> <<>>, body |-> "none", assistantId |-> Undefined]

VARIABLES
  request,      \* the request that arrives at the dispatcher
  handled,      \* whether the dispatcher's handler has run for it
  response,     \* the response it returned
  invocations,  \* the operations it invoked for that request, with their arguments
  bodyReads,    \* how often that request's body was read (json() or formData())
  escaped,      \* an exception left the handler instead of a response
  raised,       \* message of the error raised inside the handler's try block
  uploads       \* files forwarded to the remote file store, with their purpose

dispatcherVars ==
  <<request, handled, response, invocations, bodyReads, escaped, raised, uploads>>

VARIABLES
  functions,        \* names with a handler in the caller-supplied function map
  remoteTools,      \* the tools the remote assistant declares
  assistant,        \* ThreadManager.assistant: NoAssistant or the fetched tools
  threadId,         \* ThreadManager.threadId
  activeRunId,      \* ThreadManager.activeRunId
  initialized,      \* ThreadManager.initialized
  messages,         \* ThreadManager.messages, as the last refresh returned them
  initPc,           \* where init() is: the request it awaits, "done" or "failed"
  initError,        \* the function the error that ended init() names
  initRequests,     \* the requests init() has issued, in order
  initThread,       \* the thread id the request init() awaits was issued for
  initializedSignals, \* how often onInitialized was invoked
  lastStatus,       \* the status onRunStatusChanged was last invoked with
  calls,            \* the caller's sendMessage / startRun calls, in call order
  chains,           \* the poll chains pollRunStatus has started, in start order
  handlerCalls,     \* how often (1, or 2 for more) a handler of the function
                    \* map was invoked, per <<run, round, tool call id>>
  refreshesInFlight, \* message requests of un-awaited getMessages() calls,
                    \* counted per thread id they were issued for
  remoteRuns,       \* the remote service's runs; a run's id is its index
  remotePayloads,   \* the required-action payloads the remote service may send
  remoteMessages,   \* the remote threads' messages, newest first
  pollIntervalArg,  \* the pollInterval the manager is constructed with: <<>> or <<ms>>
  pollInterval      \* ThreadManager.pollInterval

managerVars ==
  <<functions, remoteTools, assistant, threadId, activeRunId, initialized,
    messages, initPc, initError, initRequests, initThread,
    initializedSignals, lastStatus, calls, chains, handlerCalls,
    refreshesInFlight, remoteRuns, remotePayloads,
    remoteMessages, pollIntervalArg, pollInterval>>

\* What the manager is constructed with, what the remote service holds for
\* it and the fields no method assigns; no step changes them.
managerInputs ==
  <<functions, remoteTools, remotePayloads, pollIntervalArg, pollInterval>>

VARIABLES
  hThreadIdArg,   \* useThread's threadId option
  hMessages,      \* the hook's messages state
  hRunStatus,     \* its runStatus state
  hThread,        \* its thread state
  hError,         \* its error state
  hLoading,       \* its loading state
  hInitializing,  \* its initializing state
  closure,        \* what the callbacks of the latest render captured
  effectDue,      \* the effect is to run after the latest render
  hookOps,        \* the handleOperation calls made so far, in call order
  setMessagesCalled \* whether the callback the hook ran last called setMessages

hookVars ==
  <<hThreadIdArg, hMessages, hRunStatus, hThread, hError, hLoading,
    hInitializing, closure, effectDue, hookOps, setMessagesCalled>>

vars == <<dispatcherVars, managerVars, hookVars>>

\* No ThreadManager has been constructed.
NoAssistant == <<[type |-> "null", name |-> ""]>>
ManagerAbsent ==
  /\ functions = {}
  /\ remoteTools = <<>>
  /\ assistant = NoAssistant
  /\ threadId = Undefined
  /\ activeRunId = 0
  /\ initialized = FALSE
  /\ messages = <<>>
  /\ pollIntervalArg = <<>>
  /\ pollInterval = 0
  /\ initPc = "unbuilt"
  /\ initError = ""
  /\ initRequests = <<>>
  /\ initThread = Undefined
  /\ initializedSignals = 0
  /\ lastStatus = "none"
  /\ calls = <<>>
  /\ chains = <<>>
  /\ handlerCalls = <<>>
  /\ refreshesInFlight = 0
  /\ remoteRuns = <<>>
  /\ remotePayloads = {}
  /\ remoteMessages = <<>>

\* No component uses the hook.
HookAbsent ==
  /\ hThreadIdArg = Undefined
  /\ hMessages = <<>>
  /\ hRunStatus = "null"
  /\ hThread = "null"
  /\ hError = "null"
  /\ hLoading = FALSE
  /\ hInitializing = TRUE
  /\ closure = [threadManager |-> "unmounted", thread |-> "null"]
  /\ effectDue = FALSE
  /\ hookOps = <<>>
  /\ setMessagesCalled = FALSE

\* params[i] of JavaScript: 0-based, undefined past the end.
At(params, i) == IF i < Len(params) THEN params[i + 1] ELSE Undefined

\* x ?? "_"
OrUnderscore(x) == IF x = Undefined THEN "_" ELSE x

determineRouteObject(params) ==
  IF At(params, 0) = "threads" THEN
    LET object == IF At(params, 2) = "runs" THEN "run" ELSE "thread"
    IN  [object |-> object,
         action |-> OrUnderscore(At(params, IF object = "run" THEN 4 ELSE 2))]
  ELSE IF At(params, 0) = "files" THEN
    [object |-> "file", action |-> OrUnderscore(At(params, 1))]
  ELSE
    [object |-> "assistant", action |-> OrUnderscore(At(params, 0))]

\* family -> action -> method -> operation
routeHandlers ==
  ( "assistant" :>
      ( "_"         :> ("GET" :> "getAssistant") @@
        "functions" :> ("GET" :> "getAssistantFunctions") ) ) @@
  ( "thread" :>
      ( "_"        :> ("POST" :> "handleCreateThread" @@ "GET" :> "getThread") @@
        "messages" :> ("POST" :> "handleSendMessage" @@ "GET" :> "handleGetMessages") @@
        "runs"     :> ("POST" :> "handleStartRun") ) ) @@
  ( "run" :>
      ( "_"           :> ("POST" :> "handleStartRun") @@
        "status"      :> ("GET" :> "checkRunStatus") @@
        "process-fns" :> ("POST" :> "processToolActions") ) ) @@
  ( "file" :>
      ( "_" :> ("POST" :> "uploadFile" @@ "GET" :> "getFile") ) )

NoHandler == "none"

\* routeHandlers[object]?.[action]?.[method]
getRouteHandler(object, action, method) ==
  IF /\ object \in DOMAIN routeHandlers
     /\ action \in DOMAIN routeHandlers[object]
     /\ method \in DOMAIN routeHandlers[object][action]
  THEN routeHandlers[object][action][method]
  ELSE NoHandler

NoArgs ==
  [assistantId |-> Undefined, fileId |-> Undefined, threadId |-> Undefined,
   runId |-> Undefined, params |-> Undefined]

\* req.json(): the parsed document, or a SyntaxError when the body is not JSON.
JsonParses(body) == body \in {"json", "json+assistant_id"}
ParsedJson == "parsed-json-body"
ParsedJsonWithAssistantId == "parsed-json-body-with-assistant_id"
Parsed(body) ==
  IF body = "json+assistant_id" THEN ParsedJsonWithAssistantId ELSE ParsedJson
QueryParams == "query-string-map"

\* extractArgs that takes params from the query string for every method.
extractArgs_queryOnly(req, object) ==
  [ok |-> TRUE, error |-> "",
   args |-> [assistantId |-> req.assistantId,
             fileId   |-> IF object = "file" THEN At(req.params, 1) ELSE Undefined,
             threadId |-> IF object \in {"thread", "run"} THEN At(req.params, 1)
                          ELSE Undefined,
             runId    |-> IF object = "run" THEN At(req.params, 3) ELSE Undefined,
             params   |-> QueryParams],
   reads |-> 0]

\* extractArgs: [ok, error, args, reads]; a POST's body is read with req.json().
extractArgs(req, object) ==
  LET readsBody == req.method = "POST"
      args == [assistantId |-> req.assistantId,
               fileId   |-> IF object = "file" THEN At(req.params, 1) ELSE Undefined,
               threadId |-> IF object \in {"thread", "run"} THEN At(req.params, 1)
                            ELSE Undefined,
               runId    |-> IF object = "run" THEN At(req.params, 3) ELSE Undefined,
               params   |-> IF readsBody THEN Parsed(req.body)
                            ELSE QueryParams]
  IN  IF readsBody /\ ~JsonParses(req.body)
      THEN [ok |-> FALSE, error |-> "Unexpected token in JSON", args |-> NoArgs,
            reads |-> 1]
      ELSE [ok |-> TRUE, error |-> "", args |-> args,
            reads |-> IF readsBody THEN 1 ELSE 0]

Invocation(op, args) == [op |-> op, args |-> args]
NoCall == Invocation(NoHandler, NoArgs)

\* uploadFile: request.formData() fails on a body that was read before or that
\* is no multipart form; otherwise the file goes to openai.files.create.
uploadFile(req, bodyUsed, remoteOk) ==
  IF bodyUsed THEN
    [ok |-> FALSE, error |-> "Body is unusable", reads |-> 1, uploads |-> {}]
  ELSE IF req.body # "multipart" THEN
    [ok |-> FALSE, error |-> "Failed to parse body as FormData", reads |-> 1,
     uploads |-> {}]
  ELSE IF ~remoteOk THEN
    [ok |-> FALSE, error |-> "remote service error", reads |-> 1, uploads |-> {}]
  ELSE
    [ok |-> TRUE, error |-> "", reads |-> 1,
     uploads |-> {[file |-> "file", purpose |-> "assistants"]}]

\* handleStartRun: the run-creation call it makes on the remote service,
\* runs.create(threadId, { assistant_id: assistantId, ...params }); a
\* member of params replaces the member of the same name written before
\* the spread.
handleStartRun(args) ==
  [threadId     |-> args.threadId,
   assistant_id |-> IF args.params = ParsedJsonWithAssistantId
                    THEN BodyAssistantId ELSE args.assistantId]

\* Any other operation is one call of the remote service's SDK.
callThrough(remoteOk) ==
  IF remoteOk
  THEN [ok |-> TRUE, error |-> "", reads |-> 0, uploads |-> {}]
  ELSE [ok |-> FALSE, error |-> "remote service error", reads |-> 0, uploads |-> {}]

runHandler(handler, req, bodyUsed, remoteOk) ==
  IF handler = "uploadFile" THEN uploadFile(req, bodyUsed, remoteOk)
  ELSE callThrough(remoteOk)

Response(status, error, result) ==
  [status |-> status, error |-> error, result |-> result]
NoResponse == Response(0, "", NoCall)

Outcome(resp, invoked, reads, esc, err, ups) ==
  [response |-> resp, invocations |-> invoked, bodyReads |-> reads,
   escaped |-> esc, raised |-> err, uploads |-> ups]

\* createAssistantRoutes with the arguments extracted before the handler is
\* looked up.
createAssistantRoutes_extractFirst(req, remoteOk) ==
  LET route   == determineRouteObject(req.params)
      handler == getRouteHandler(route.object, route.action, req.method)
      ex      == extractArgs(req, route.object)
  IN  IF handler = NoHandler THEN
        Outcome(Response(404, "Not Found", NoCall), <<>>, ex.reads, FALSE, "", {})
      ELSE IF ~ex.ok THEN
        Outcome(Response(500, ex.error, NoCall), <<>>, ex.reads, FALSE, ex.error, {})
      ELSE
        LET call == Invocation(handler, ex.args)
            run  == runHandler(handler, req, ex.reads > 0, remoteOk)
        IN  IF run.ok THEN
              Outcome(Response(200, "", call), <<call>>, ex.reads + run.reads,
                      FALSE, "", run.uploads)
            ELSE
              Outcome(Response(500, run.error, NoCall), <<call>>,
                      ex.reads + run.reads, FALSE, run.error, {})

\* createAssistantRoutes with extractArgs awaited outside the try block.
createAssistantRoutes_extractOutsideTry(req, remoteOk) ==
  LET route   == determineRouteObject(req.params)
      handler == getRouteHandler(route.object, route.action, req.method)
  IN  IF handler = NoHandler THEN
        Outcome(Response(404, "Not Found", NoCall), <<>>, 0, FALSE, "", {})
      ELSE
        LET ex == extractArgs(req, route.object)
        IN  IF ~ex.ok THEN
              Outcome(NoResponse, <<>>, ex.reads, TRUE, ex.error, {})
            ELSE
              LET call == Invocation(handler, ex.args)
                  run  == runHandler(handler, req, ex.reads > 0, remoteOk)
              IN  IF run.ok THEN
                    Outcome(Response(200, "", call), <<call>>,
                            ex.reads + run.reads, FALSE, "", run.uploads)
                  ELSE
                    Outcome(Response(500, run.error, NoCall), <<call>>,
                            ex.reads + run.reads, FALSE, run.error, {})

\* The handler createAssistantRoutes returns, applied to one request.
createAssistantRoutes(req, remoteOk) ==
  LET route   == determineRouteObject(req.params)
      handler == getRouteHandler(route.object, route.action, req.method)
  IN  IF handler = NoHandler THEN
        Outcome(Response(404, "Not Found", NoCall), <<>>, 0, FALSE, "", {})
      ELSE
        LET ex == extractArgs(req, route.object)
        IN  IF ~ex.ok THEN
              Outcome(Response(500, ex.error, NoCall), <<>>, ex.reads, FALSE,
                      ex.error, {})
            ELSE
              LET call == Invocation(handler, ex.args)
                  run  == runHandler(handler, req, ex.reads > 0, remoteOk)
              IN  IF run.ok THEN
                    Outcome(Response(200, "", call), <<call>>,
                            ex.reads + run.reads, FALSE, "", run.uploads)
                  ELSE
                    Outcome(Response(500, run.error, NoCall), <<call>>,
                            ex.reads + run.reads, FALSE, run.error, {})

InitDispatcher ==
  /\ request \in Requests
  /\ handled = FALSE
  /\ response = NoResponse
  /\ invocations = <<>>
  /\ bodyReads = 0
  /\ escaped = FALSE
  /\ raised = ""
  /\ uploads = {}

\* The request handled from arrival to response; remoteOk is whether the
\* remote service answers the operation's call.
HandleRequest ==
  /\ ~handled
  /\ \E remoteOk \in BOOLEAN :
    LET out == createAssistantRoutes(request, remoteOk)
    IN  /\ handled' = TRUE
        /\ UNCHANGED request
        /\ response' = out.response
        /\ invocations' = out.invocations
        /\ bodyReads' = out.bodyReads
        /\ escaped' = out.escaped
        /\ raised' = out.raised
        /\ uploads' = out.uploads
        /\ UNCHANGED <<managerVars, hookVars>>

\* No request has reached the dispatcher.
DispatcherIdle ==
  /\ request = NoRequest
  /\ handled = TRUE
  /\ response = NoResponse
  /\ invocations = <<>>
  /\ bodyReads = 0
  /\ escaped = FALSE
  /\ raised = ""
  /\ uploads = {}

\* The dispatcher alone, serving one request of any shape.
InitD == InitDispatcher /\ ManagerAbsent /\ HookAbsent
NextDispatcher == HandleRequest
SpecDispatcher == InitD /\ [][NextDispatcher]_vars

(***************************************************************************)
(* Claims about the Route Dispatcher                                       *)
(***************************************************************************)

\* The three-step routing rule as the specification words it: threads
\* marker first -> run if the third segment is the runs marker, else
\* thread; files marker first -> file; otherwise assistant.  The sub-action
\* is the segment after the resource id, "_" when there is none.
ResolvedFamily(params) ==
  IF Len(params) >= 1 /\ params[1] = "threads"
  THEN IF Len(params) >= 3 /\ params[3] = "runs" THEN "run" ELSE "thread"
  ELSE IF Len(params) >= 1 /\ params[1] = "files" THEN "file"
  ELSE "assistant"

ResolvedAction(params) ==
  LET at == CASE ResolvedFamily(params) = "run"    -> 5
              [] ResolvedFamily(params) = "thread" -> 3
              [] ResolvedFamily(params) = "file"   -> 2
              [] OTHER                             -> 1
  IN  IF Len(params) >= at THEN params[at] ELSE "_"

ResolvedTriple(req) ==
  <<ResolvedFamily(req.params), ResolvedAction(req.params), req.method>>

\* The entries of the fixed operation table, as triples.
OperationTable ==
  UNION { UNION { { <<o, a, m>> : m \in DOMAIN routeHandlers[o][a] } :
                  a \in DOMAIN routeHandlers[o] } :
          o \in DOMAIN routeHandlers }

TableEntry(t) == routeHandlers[t[1]][t[2]][t[3]]

\* The arguments a matched request's operation is to receive.
ExpectedArgs(req) ==
  LET fam == ResolvedFamily(req.params)
      seg(i) == IF Len(req.params) >= i THEN req.params[i] ELSE Undefined
  IN  [assistantId |-> req.assistantId,
       fileId   |-> IF fam = "file" THEN seg(2) ELSE Undefined,
       threadId |-> IF fam \in {"thread", "run"} THEN seg(2) ELSE Undefined,
       runId    |-> IF fam = "run" THEN seg(4) ELSE Undefined,
       params   |-> IF req.method = "POST" THEN Parsed(req.body)
                    ELSE QueryParams]

ExpectedCall(req) == Invocation(TableEntry(ResolvedTriple(req)), ExpectedArgs(req))

\* C1: a request whose (family, sub-action, method) triple is not in the
\* operation table is answered 404 {error: "Not Found"}; no operation is
\* invoked and the request body is not read.
C1_UnmatchedIsNotFound ==
  (handled /\ ResolvedTriple(request) \notin OperationTable) =>
    /\ response = Response(404, "Not Found", NoCall)
    /\ invocations = <<>>
    /\ bodyReads = 0
    /\ ~escaped

C1_Witness ==
  /\ handled
  /\ request.method = "POST"
  /\ request.body = "json"
  /\ request.params = <<"threads", "id1", "status">>
  /\ response.status = 404

\* C2 as claimed: every request whose triple is in the operation table has
\* exactly that entry invoked exactly once, with the arguments taken from
\* the route context, the path and the body or query, and is answered 200
\* with the operation's result.
C2_MatchedAlwaysAnswers200 ==
  (handled /\ ResolvedTriple(request) \in OperationTable) =>
    /\ invocations = <<ExpectedCall(request)>>
    /\ response = Response(200, "", ExpectedCall(request))

\* C2 as amended: a request whose triple is in the operation table has
\* exactly that entry invoked exactly once with those arguments whenever
\* argument extraction succeeds (a POST body parses as JSON), and is then
\* answered 200 with the operation's result if the operation returns and
\* 500 with the error's message if it raises; when a POST body does not
\* parse as JSON nothing is invoked and the answer is 500.
C2_MatchedInvokesEntry ==
  (handled /\ ResolvedTriple(request) \in OperationTable) =>
    IF request.method = "POST"
         /\ request.body \notin {"json", "json+assistant_id"}
    THEN /\ invocations = <<>>
         /\ response.status = 500
    ELSE /\ invocations = <<ExpectedCall(request)>>
         /\ IF raised = ""
            THEN response = Response(200, "", ExpectedCall(request))
            ELSE response = Response(500, raised, NoCall)

C2_Witness ==
  /\ handled
  /\ request.method = "POST"
  /\ request.body = "json"
  /\ request.params = <<"threads", "id1", "runs", "latest", "process-fns">>
  /\ response.status = 200
  /\ Len(invocations) = 1
  /\ invocations[1].op = "processToolActions"
  /\ invocations[1].args.threadId = "id1"
  /\ invocations[1].args.runId = "latest"
  /\ invocations[1].args.params = ParsedJson

\* C3: GET threads/{threadId}/runs/latest is dispatched to an operation
\* (one that lists the thread's runs) and answered 200, never 404.
C3_LatestRunIsServed ==
  ( /\ handled
    /\ request.method = "GET"
    /\ Len(request.params) = 4
    /\ request.params[1] = "threads"
    /\ request.params[3] = "runs"
    /\ request.params[4] = "latest" ) =>
    /\ response.status # 404
    /\ Len(invocations) = 1
    /\ (raised = "" => response.status = 200)

\* C4: GET files/{fileId}/_ is dispatched to the retrieve-file operation
\* with fileId equal to that segment, for any file id, and answered 200.
C4_FileIsRetrieved ==
  ( /\ handled
    /\ request.method = "GET"
    /\ Len(request.params) = 3
    /\ request.params[1] = "files"
    /\ request.params[3] = "_" ) =>
    /\ Len(invocations) = 1
    /\ invocations[1].op = "getFile"
    /\ invocations[1].args.fileId = request.params[2]
    /\ (raised = "" => response.status = 200)

\* C5: POST files/_ with a multipart form carrying field `file` reaches the
\* upload operation with its body unread, so that the file is forwarded to
\* the remote file store with purpose "assistants" and the answer is 200.
C5_UploadReachesFileStore ==
  ( /\ handled
    /\ request.method = "POST"
    /\ request.params = <<"files", "_">>
    /\ request.body = "multipart" ) =>
    /\ Len(invocations) = 1
    /\ invocations[1].op = "uploadFile"
    /\ raised \notin {"Unexpected token in JSON", "Body is unusable"}
    /\ (raised = "" =>
          /\ response.status = 200
          /\ uploads = {[file |-> "file", purpose |-> "assistants"]})

\* C6: every handled request has exactly one response, with status 200, 404
\* or 500, and no exception leaves the handler; an error raised by argument
\* extraction or by the invoked operation gives 500 {error: its message}.
C6_ErrorsBecomeEnvelopes ==
  handled =>
    /\ ~escaped
    /\ response # NoResponse
    /\ response.status \in {200, 404, 500}
    /\ (raised # "" => response = Response(500, raised, NoCall))
    /\ (response.status = 500 => raised # "")

C6_Witness ==
  /\ handled
  /\ request.method = "POST"
  /\ request.body = "garbage"
  /\ request.params = <<"threads", "id1", "messages">>
  /\ raised = "Unexpected token in JSON"
  /\ response = Response(500, "Unexpected token in JSON", NoCall)
  /\ ~escaped

(***************************************************************************)
(* Part 2. ThreadManager                                                   *)
(***************************************************************************)

\* How many sendMessage / startRun calls the caller makes.
MaxCalls == 1
\* How often the remote service puts one run into requires_action.
MaxRounds == 1
\* The most tool calls in one required-action payload.
MaxToolCalls == 2
\* The most tools the remote assistant declares.
MaxTools == 2

\* The run statuses of the remote service.
Statuses ==
  {"queued", "in_progress", "requires_action", "cancelling",
   "completed", "failed", "cancelled", "expired"}

\* A stop test whose pattern lacks "expired".
PollStops_noExpired(status) ==
  status = "completed" \/ status \in {"failed", "cancelled"}

\* poll(): status === "completed" || status.match(/failed|cancelled|expired/);
\* of the statuses only these three contain one of the pattern's words
\* ("cancelling" does not contain "cancelled").
PollStops(status) ==
  status = "completed" \/ status \in {"failed", "cancelled", "expired"}

\* checkForActiveRun resumes a run unless its status is one of these.
\* An exclusion list without "cancelling".
NotResumed_withoutCancelling == {"completed", "failed", "cancelled", "expired"}

\* checkForActiveRun: the statuses of a latest run that is not resumed.
NotResumed == {"completed", "failed", "cancelled", "expired", "cancelling"}

\* The names callers register handlers under.
FunctionNames == {"f", "g"}

\* A name every object literal inherits from Object.prototype: the function
\* map is a plain object ({} by default), and functions[name] reads
\* inherited properties as well as the map's own entries.
InheritedNames == {"toString"}

\* What functions[name] evaluates to: the caller's handler, an inherited
\* method, or undefined.
Lookup(fns, name) ==
  IF name \in fns THEN "own"
  ELSE IF name \in InheritedNames THEN "inherited"
  ELSE "undefined"

\* The tools an assistant can declare: function tools and one other type.
Tools ==
  { [type |-> "function", name |-> n] : n \in FunctionNames \cup InheritedNames }
    \cup { [type |-> "code_interpreter", name |-> ""] }

\* Tool lists without repetition.
ToolLists ==
  { ts \in SeqsUpTo(Tools, MaxTools) :
      \A i, j \in 1 .. Len(ts) : i # j => ts[i] # ts[j] }

ThreadIds == {"T1"}

\* The id of the thread the remote service creates on request, and every
\* thread id there is.
NewThreadId == "T2"
AllThreadIds == ThreadIds \cup {NewThreadId}

\* checkAssistantFunctions walks the tools in order and throws at the first
\* function tool for which functions?.[name] is falsy: the name the error
\* carries, or "" when no tool makes it throw.
RECURSIVE checkAssistantFunctions(_, _)
checkAssistantFunctions(tools, fns) ==
  IF tools = <<>> THEN ""
  ELSE IF tools[1].type = "function" /\ Lookup(fns, tools[1].name) = "undefined"
       THEN tools[1].name
       ELSE checkAssistantFunctions(Tail(tools), fns)

\* A poll chain: one pollRunStatus() call and the poll() calls it leads to.
\*   pc         "fetching" (status request in flight), "dispatching" (tool
\*              calls being handled), "submitting" (tool-output request in
\*              flight), "timer" (setTimeout armed), "stopped" (returned
\*              after a terminal status), "dead" (poll() threw)
\*   reqThread, reqRun   the ids in the URL of the last status request
\*   status     the status the chain read last ("none" before the first)
\*   run, payload, idx, results, outcomes, submits   the dispatch in
\*              progress: run.id, the required-action payload, the next
\*              tool call, the result map, what became of each call and
\*              the tool-output requests issued
\*   refreshes  the getMessages() calls the chain made
\*   scheduled  the timers armed since the status was read
\*   delay      the delay of the armed timer, in ms
\*   round      the round of the run the payload belongs to
\*   forThread, forRun   the thread id and active run id pollRunStatus() saw
\*              when it started the chain
ToolCallIds == 1 .. MaxToolCalls
Absent == "absent"
Null == "null"
NoResults == [i \in ToolCallIds |-> Absent]
NoOutcomes == [i \in ToolCallIds |-> "not-reached"]
NoPayload == [ok |-> FALSE, calls |-> <<>>]

\* A run of the remote service: its thread, its status, how often it has
\* asked for tool outputs, and the required-action payload it shows while
\* it waits for them.
Run(thread, status, round) ==
  [thread |-> thread, status |-> status, round |-> round,
   payload |-> NoPayload]

\* private pollInterval: number = 2000
DefaultPollInterval == 2000

\* The pollInterval a caller may pass: none (<<>>) or a number of ms.
SuppliedIntervals == {<<>>, <<500>>}

NewChain(tid, rid) ==
  [pc |-> "fetching", reqThread |-> tid, reqRun |-> rid, status |-> "none",
   run |-> 0, payload |-> NoPayload, idx |-> 0, results |-> NoResults,
   outcomes |-> NoOutcomes, submits |-> 0, refreshes |-> 0, scheduled |-> 0,
   delay |-> 0, forThread |-> tid, forRun |-> rid, round |-> 0]

\* Array.prototype.reverse
RECURSIVE Reverse(_)
Reverse(list) ==
  IF list = <<>> THEN <<>> ELSE Append(Reverse(Tail(list)), Head(list))

\* The manager is constructed during the first render, so the callbacks it
\* is given close over that render's messages and runStatus: the initial
\* values of useState([]) and useState(null).
FirstRenderMessages == <<>>
FirstRenderRunStatus == "null"

\* Whether a component uses the hook, so that the manager's three callbacks
\* are the hook's; a manager constructed by itself has the default
\* callbacks, which do nothing.
HookMounted == closure.threadManager # "unmounted"

\* onRunStatusChanged that does not clear the flag for an expired run.
LoadingAfter_expiredKeeps(status, loading) ==
  IF status \in {"in_progress", "queued", "requires_action"} THEN TRUE
  ELSE IF status \in {"completed", "failed", "cancelled"} THEN FALSE
  ELSE loading

\* The hook's onRunStatusChanged on its loading state.
LoadingAfter(status, loading) ==
  IF status \in {"in_progress", "queued", "requires_action"} THEN TRUE
  ELSE IF status \in {"completed", "failed", "cancelled", "expired"} THEN FALSE
  ELSE loading

\* The list a refresh leaves in the manager's messages field: the hook's
\* onMessagesUpdated reverses the array it is handed, which is the one the
\* manager holds, in place.
Exposed(data) ==
  IF HookMounted /\ FirstRenderMessages # data THEN Reverse(data) ELSE data

\* The callbacks one step of the manager invokes: onRunStatusChanged(status)
\* unless status is "none", onMessagesUpdated(data[1]) unless data is <<>>,
\* onInitialized() when init is true.  With the hook mounted they set its
\* state.
Callbacks(status, data, init) ==
  IF ~HookMounted THEN UNCHANGED hookVars
  ELSE
    /\ hLoading' = IF status = "none" THEN hLoading
                   ELSE LoadingAfter(status, hLoading)
    /\ hRunStatus' = IF status = "none" \/ FirstRenderRunStatus = status
                     THEN hRunStatus ELSE status
    /\ hMessages' = IF data # <<>> /\ FirstRenderMessages # data[1]
                    THEN Reverse(data[1]) ELSE hMessages
    /\ setMessagesCalled' = (data # <<>> /\ FirstRenderMessages # data[1])
    /\ hInitializing' = IF init THEN FALSE ELSE hInitializing
    /\ UNCHANGED <<hThreadIdArg, hThread, hError, closure, effectDue, hookOps>>

\* pollRunStatus(): throws without a thread id or an active run id (nobody
\* awaits it); otherwise calls poll(), which issues the first status request.
pollRunStatus(chs, tid, rid) ==
  IF tid = Undefined \/ rid = 0 THEN chs ELSE Append(chs, NewChain(tid, rid))

\* The manager right after its constructor: the fields are set and init()
\* has issued the assistant request.  The thread, when one is supplied, may
\* hold an earlier run.  fnMaps, toolLists, payloads and earlier are the
\* function maps, the declared tools, the required-action payloads and the
\* statuses of the earlier run to draw from; intervals are the pollInterval
\* arguments and histories the message lists the thread may hold (newest
\* first, as the remote service lists them) to draw from.  The constructor
\* reads assistantId, threadId, functions and the three callbacks from its
\* argument and nothing else, so the pollInterval field keeps its
\* initializer.
InitManager(fnMaps, toolLists, payloads, earlier, intervals, histories) ==
  /\ functions \in fnMaps
  /\ pollIntervalArg \in intervals
  /\ pollInterval = DefaultPollInterval
  /\ remoteTools \in toolLists
  /\ remotePayloads = payloads
  /\ assistant = NoAssistant
  /\ threadId \in ThreadIds \cup {Undefined}
  /\ activeRunId = 0
  /\ initialized = FALSE
  /\ messages = <<>>
  /\ initPc = "getAssistant"
  /\ initError = ""
  /\ initRequests = <<"assistant">>
  /\ initThread = Undefined
  /\ initializedSignals = 0
  /\ lastStatus = "none"
  /\ calls = <<>>
  /\ chains = <<>>
  /\ handlerCalls = <<>>
  /\ refreshesInFlight = [t \in AllThreadIds |-> 0]
  /\ remoteRuns \in
       IF threadId = Undefined THEN {<<>>}
       ELSE {<<>>} \cup
            { <<Run(threadId, st, 0)>> : st \in earlier \ {"requires_action"} }
            \cup { <<[Run(threadId, "requires_action", 1)
                        EXCEPT !.payload = p]>> :
                     p \in IF "requires_action" \in earlier
                           THEN payloads ELSE {} }
  /\ remoteMessages \in
       { [t \in AllThreadIds |-> IF t = threadId THEN h ELSE <<>>] :
           h \in histories }

\* init() after `await this.getAssistant()`: the coverage check, then the
\* thread request or, without a thread id, the end of init().
InitAssistantResponse ==
  /\ initPc = "getAssistant"
  /\ \E ok \in BOOLEAN :
       IF ~ok THEN
         /\ initPc' = "failed"
         /\ UNCHANGED <<assistant, initError, initRequests, initialized,
                        initializedSignals>>
       ELSE
         /\ assistant' = remoteTools
         /\ LET missing == checkAssistantFunctions(remoteTools, functions)
            IN  IF missing # "" THEN
                  /\ initPc' = "failed"
                  /\ initError' = missing
                  /\ UNCHANGED <<initRequests, initialized, initializedSignals>>
                ELSE IF threadId # Undefined THEN
                  /\ initPc' = "getThread"
                  /\ initRequests' = Append(initRequests, "thread")
                  /\ UNCHANGED <<initError, initialized, initializedSignals>>
                ELSE
                  /\ initPc' = "done"
                  /\ initialized' = TRUE
                  /\ initializedSignals' = initializedSignals + 1
                  /\ UNCHANGED <<initError, initRequests>>
  /\ UNCHANGED <<threadId, activeRunId, messages,
                 lastStatus, calls, chains, refreshesInFlight, remoteRuns,
                 remoteMessages>>
  /\ initThread' = IF initPc' \in {"getThread", "getMessages", "checkForActiveRun"}
                   THEN threadId ELSE initThread
  /\ UNCHANGED <<dispatcherVars, managerInputs, handlerCalls>>
  /\ Callbacks("none", <<>>, initPc' = "done")

\* init() after `await this.getThread()`: getMessages() issues its request.
InitThreadResponse ==
  /\ initPc = "getThread"
  /\ \E ok \in BOOLEAN :
       IF ok THEN
         /\ initPc' = "getMessages"
         /\ initRequests' = Append(initRequests, "messages")
       ELSE
         /\ initPc' = "failed"
         /\ UNCHANGED initRequests
  /\ UNCHANGED <<assistant, threadId, activeRunId,
                 initialized, messages, initError, initializedSignals,
                 lastStatus, calls, chains, refreshesInFlight, remoteRuns,
                 remoteMessages>>
  /\ initThread' = IF initPc' \in {"getThread", "getMessages", "checkForActiveRun"}
                   THEN threadId ELSE initThread
  /\ UNCHANGED <<dispatcherVars, managerInputs, handlerCalls, hookVars>>

\* An init() that calls onInitialized as soon as the messages are there,
\* before the check for an active run, and again at its end.
InitMessagesResponse_signalsEarly ==
  /\ initPc = "getMessages"
  /\ \E ok \in BOOLEAN :
       IF ok THEN
         /\ messages' = Exposed(remoteMessages[initThread])
         /\ initPc' = "checkForActiveRun"
         /\ initRequests' = Append(initRequests, "latest-run")
         /\ initializedSignals' = initializedSignals + 1
       ELSE
         /\ initPc' = "failed"
         /\ UNCHANGED <<messages, initRequests, initializedSignals>>
  /\ UNCHANGED <<assistant, threadId, activeRunId,
                 initialized, initError, lastStatus, calls,
                 chains, refreshesInFlight, remoteRuns, remoteMessages>>
  /\ initThread' = IF initPc' \in {"getThread", "getMessages", "checkForActiveRun"}
                   THEN threadId ELSE initThread
  /\ UNCHANGED <<dispatcherVars, managerInputs, handlerCalls>>
  /\ Callbacks("none",
               IF initPc' = "checkForActiveRun" THEN <<remoteMessages[initThread]>>
               ELSE <<>>,
               initPc' = "checkForActiveRun")

\* init() after `await this.getMessages()`: the list is stored and
\* checkForActiveRun() issues the latest-run request.
InitMessagesResponse ==
  /\ initPc = "getMessages"
  /\ \E ok \in BOOLEAN :
       IF ok THEN
         /\ messages' = Exposed(remoteMessages[initThread])
         /\ initPc' = "checkForActiveRun"
         /\ initRequests' = Append(initRequests, "latest-run")
       ELSE
         /\ initPc' = "failed"
         /\ UNCHANGED <<messages, initRequests>>
  /\ UNCHANGED <<assistant, threadId, activeRunId,
                 initialized, initError, initializedSignals, lastStatus, calls,
                 chains, refreshesInFlight, remoteRuns, remoteMessages>>
  /\ initThread' = IF initPc' \in {"getThread", "getMessages", "checkForActiveRun"}
                   THEN threadId ELSE initThread
  /\ UNCHANGED <<dispatcherVars, managerInputs, handlerCalls>>
  /\ Callbacks("none",
               IF initPc' = "checkForActiveRun" THEN <<remoteMessages[initThread]>>
               ELSE <<>>,
               FALSE)

\* The newest run of a thread (runs?.data?.[0]), 0 when it has none.
LatestRun(runs, tid) ==
  LET own == { i \in 1 .. Len(runs) : runs[i].thread = tid }
  IN  IF own = {} THEN 0 ELSE CHOOSE i \in own : \A j \in own : j <= i

\* init() after `await this.checkForActiveRun()`: a latest run that is not
\* excluded becomes the active run, its status is signalled and polling
\* starts; then init() sets initialized and calls onInitialized.
InitLatestRunResponse ==
  /\ initPc = "checkForActiveRun"
  /\ \E ok \in BOOLEAN :
       IF ~ok THEN
         /\ initPc' = "failed"
         /\ UNCHANGED <<activeRunId, lastStatus, chains, initialized,
                        initializedSignals>>
       ELSE
         LET run == LatestRun(remoteRuns, initThread)
         IN  /\ IF run # 0 /\ remoteRuns[run].status \notin NotResumed THEN
                   /\ activeRunId' = run
                   /\ lastStatus' = remoteRuns[run].status
                   /\ chains' = pollRunStatus(chains, threadId, run)
                 ELSE
                   UNCHANGED <<activeRunId, lastStatus, chains>>
             /\ initPc' = "done"
             /\ initialized' = TRUE
             /\ initializedSignals' = initializedSignals + 1
  /\ UNCHANGED <<assistant, threadId, messages,
                 initError, initRequests, calls, refreshesInFlight, remoteRuns,
                 remoteMessages>>
  /\ UNCHANGED <<dispatcherVars, managerInputs, initThread, handlerCalls>>
  /\ Callbacks(IF Len(chains') > Len(chains) THEN lastStatus' ELSE "none",
               <<>>, initPc' = "done")

\* A call of the caller: the operation, the request it awaits ("append",
\* "refresh", "create", "messages", "thread", "newThread") or how it ended ("resolved", "rejected"), the
\* requests it has issued in order, whether a run was being tracked as
\* active when its run-creation request was issued, and the thread id the
\* request it awaits was issued for.
Call(op, pc, trace) ==
  [op |-> op, pc |-> pc, trace |-> trace, hadActiveRun |-> FALSE,
   thread |-> threadId]

\* sendMessage(content): without a thread id it throws before any request;
\* otherwise it issues the message-append request.
CallSendMessage ==
  /\ initPc # "unbuilt"
  /\ Len(calls) < MaxCalls
  /\ calls' = Append(calls,
                IF threadId = Undefined
                THEN Call("sendMessage", "rejected", <<>>)
                ELSE Call("sendMessage", "append", <<"append">>))
  /\ UNCHANGED <<assistant, threadId, activeRunId,
                 initialized, messages, initPc, initError, initRequests,
                 initializedSignals, lastStatus, chains, refreshesInFlight,
                 remoteRuns, remoteMessages>>
  /\ UNCHANGED <<dispatcherVars, managerInputs, initThread, handlerCalls, hookVars>>

\* startRun(runArgs): without a thread id it throws before any request;
\* otherwise it issues the run-creation request.
CallStartRun ==
  /\ initPc # "unbuilt"
  /\ Len(calls) < MaxCalls
  /\ calls' = Append(calls,
                IF threadId = Undefined
                THEN Call("startRun", "rejected", <<>>)
                ELSE [Call("startRun", "create", <<"create">>)
                        EXCEPT !.hadActiveRun = activeRunId # 0])
  /\ UNCHANGED <<assistant, threadId, activeRunId,
                 initialized, messages, initPc, initError, initRequests,
                 initializedSignals, lastStatus, chains, refreshesInFlight,
                 remoteRuns, remoteMessages>>
  /\ UNCHANGED <<dispatcherVars, managerInputs, initThread, handlerCalls, hookVars>>

\* sendMessage after the append request is answered: on success the
\* remote thread holds the new message and getMessages() issues its request.
AppendResponse(i) ==
  /\ calls[i].pc = "append"
  /\ \E ok \in BOOLEAN :
       IF ok THEN
         /\ remoteMessages' = [remoteMessages EXCEPT ![calls[i].thread] =
                                <<Len(@) + 1>> \o @]
         /\ calls' = [calls EXCEPT ![i].pc = "refresh",
                                    ![i].trace = Append(@, "refresh"),
                                    ![i].thread = threadId]
       ELSE
         /\ calls' = [calls EXCEPT ![i].pc = "rejected"]
         /\ UNCHANGED remoteMessages
  /\ UNCHANGED <<assistant, threadId, activeRunId,
                 initialized, messages, initPc, initError, initRequests,
                 initializedSignals, lastStatus, chains, refreshesInFlight,
                 remoteRuns>>
  /\ UNCHANGED <<dispatcherVars, managerInputs, initThread, handlerCalls, hookVars>>

\* sendMessage that starts no run while one is tracked as active.
RefreshResponse_guarded(i) ==
  /\ calls[i].pc = "refresh"
  /\ \E ok \in BOOLEAN :
       IF ok THEN
         /\ messages' = Exposed(remoteMessages[calls[i].thread])
         /\ calls' = IF activeRunId # 0
                      THEN [calls EXCEPT ![i].pc = "resolved"]
                      ELSE [calls EXCEPT ![i].pc = "create",
                                         ![i].trace = Append(@, "create"),
                                         ![i].hadActiveRun = activeRunId # 0,
                                         ![i].thread = threadId]
       ELSE
         /\ calls' = [calls EXCEPT ![i].pc = "rejected"]
         /\ UNCHANGED messages
  /\ UNCHANGED <<assistant, threadId, activeRunId,
                 initialized, initPc, initError, initRequests,
                 initializedSignals, lastStatus, chains, refreshesInFlight,
                 remoteRuns, remoteMessages>>
  /\ UNCHANGED <<dispatcherVars, managerInputs, initThread, handlerCalls>>
  /\ Callbacks("none",
               IF calls'[i].pc = "rejected" THEN <<>>
               ELSE <<remoteMessages[calls[i].thread]>>,
               FALSE)

\* sendMessage after `await this.getMessages()`: on success the list is
\* stored and startRun({}) issues the run-creation request.
RefreshResponse(i) ==
  /\ calls[i].pc = "refresh"
  /\ \E ok \in BOOLEAN :
       IF ok THEN
         /\ messages' = Exposed(remoteMessages[calls[i].thread])
         /\ calls' = [calls EXCEPT ![i].pc = "create",
                                    ![i].trace = Append(@, "create"),
                                    ![i].hadActiveRun = activeRunId # 0,
                                    ![i].thread = threadId]
       ELSE
         /\ calls' = [calls EXCEPT ![i].pc = "rejected"]
         /\ UNCHANGED messages
  /\ UNCHANGED <<assistant, threadId, activeRunId,
                 initialized, initPc, initError, initRequests,
                 initializedSignals, lastStatus, chains, refreshesInFlight,
                 remoteRuns, remoteMessages>>
  /\ UNCHANGED <<dispatcherVars, managerInputs, initThread, handlerCalls>>
  /\ Callbacks("none",
               IF calls'[i].pc = "rejected" THEN <<>>
               ELSE <<remoteMessages[calls[i].thread]>>,
               FALSE)

\* getMessages() called by the caller: without a thread id it throws
\* before any request; otherwise it issues the message request.
CallGetMessages ==
  /\ initPc # "unbuilt"
  /\ Len(calls) < MaxCalls
  /\ calls' = Append(calls,
                IF threadId = Undefined
                THEN Call("getMessages", "rejected", <<>>)
                ELSE Call("getMessages", "messages", <<"refresh">>))
  /\ UNCHANGED <<assistant, threadId, activeRunId,
                 initialized, messages, initPc, initError, initRequests,
                 initializedSignals, lastStatus, chains, refreshesInFlight,
                 remoteRuns, remoteMessages>>
  /\ UNCHANGED <<dispatcherVars, managerInputs, initThread, handlerCalls, hookVars>>

\* getThread() called by the caller: without a thread id it throws before
\* any request; otherwise it issues the thread request.
CallGetThread ==
  /\ initPc # "unbuilt"
  /\ Len(calls) < MaxCalls
  /\ calls' = Append(calls,
                IF threadId = Undefined
                THEN Call("getThread", "rejected", <<>>)
                ELSE Call("getThread", "thread", <<"thread">>))
  /\ UNCHANGED <<assistant, threadId, activeRunId,
                 initialized, messages, initPc, initError, initRequests,
                 initializedSignals, lastStatus, chains, refreshesInFlight,
                 remoteRuns, remoteMessages>>
  /\ UNCHANGED <<dispatcherVars, managerInputs, initThread, handlerCalls, hookVars>>

\* createThread({ threadArgs }) called by the caller: it issues the
\* thread-creation request, whatever the manager holds.  The remote service
\* creates one thread on request.
CallCreateThread ==
  /\ initPc # "unbuilt"
  /\ Len(calls) < MaxCalls
  /\ \A i \in 1 .. Len(calls) : calls[i].op # "createThread"
  /\ calls' = Append(calls, Call("createThread", "newThread", <<"newThread">>))
  /\ UNCHANGED <<assistant, threadId, activeRunId,
                 initialized, messages, initPc, initError, initRequests,
                 initializedSignals, lastStatus, chains, refreshesInFlight,
                 remoteRuns, remoteMessages>>
  /\ UNCHANGED <<dispatcherVars, managerInputs, initThread, handlerCalls, hookVars>>

\* createThread after its request is answered: on success the new thread's
\* id replaces this.threadId, and nothing else changes; a failure is
\* logged and rethrown.
CreateThreadResponse(i) ==
  /\ calls[i].pc = "newThread"
  /\ \E ok \in BOOLEAN :
       IF ok THEN
         /\ threadId' = NewThreadId
         /\ calls' = [calls EXCEPT ![i].pc = "resolved"]
       ELSE
         /\ calls' = [calls EXCEPT ![i].pc = "rejected"]
         /\ UNCHANGED threadId
  /\ UNCHANGED <<assistant, activeRunId,
                 initialized, messages, initPc, initError, initRequests,
                 initializedSignals, lastStatus, chains, refreshesInFlight,
                 remoteRuns, remoteMessages>>
  /\ UNCHANGED <<dispatcherVars, managerInputs, initThread, handlerCalls, hookVars>>

\* The caller's getMessages() after its request is answered: on success
\* the list is stored and the call resolves.
MessagesResponse(i) ==
  /\ calls[i].pc = "messages"
  /\ \E ok \in BOOLEAN :
       IF ok THEN
         /\ messages' = Exposed(remoteMessages[calls[i].thread])
         /\ calls' = [calls EXCEPT ![i].pc = "resolved"]
       ELSE
         /\ calls' = [calls EXCEPT ![i].pc = "rejected"]
         /\ UNCHANGED messages
  /\ UNCHANGED <<assistant, threadId, activeRunId,
                 initialized, initPc, initError, initRequests,
                 initializedSignals, lastStatus, chains, refreshesInFlight,
                 remoteRuns, remoteMessages>>
  /\ UNCHANGED <<dispatcherVars, managerInputs, initThread, handlerCalls>>
  /\ Callbacks("none",
               IF calls'[i].pc = "rejected" THEN <<>>
               ELSE <<remoteMessages[calls[i].thread]>>,
               FALSE)

\* The caller's getThread() after its request is answered.
ThreadResponse(i) ==
  /\ calls[i].pc = "thread"
  /\ \E ok \in BOOLEAN :
       calls' = [calls EXCEPT ![i].pc = IF ok THEN "resolved" ELSE "rejected"]
  /\ UNCHANGED <<assistant, threadId, activeRunId,
                 initialized, messages, initPc, initError, initRequests,
                 initializedSignals, lastStatus, chains, refreshesInFlight,
                 remoteRuns, remoteMessages>>
  /\ UNCHANGED <<dispatcherVars, managerInputs, initThread, handlerCalls, hookVars>>

\* A startRun that tracks the run and polls before it looks at the response.
CreateResponse_pollsBeforeCheck(i) ==
  /\ calls[i].pc = "create"
  /\ \E ok \in BOOLEAN :
       LET id == Len(remoteRuns) + 1
       IN  /\ remoteRuns' = IF ok THEN Append(remoteRuns, Run(calls[i].thread, "queued", 0))
                            ELSE remoteRuns
           /\ lastStatus' = "queued"
           /\ activeRunId' = id
           /\ chains' = pollRunStatus(chains, threadId, id)
           /\ calls' = [calls EXCEPT ![i].pc = IF ok THEN "resolved" ELSE "rejected"]
  /\ UNCHANGED <<assistant, threadId, initialized,
                 messages, initPc, initError, initRequests, initializedSignals,
                 refreshesInFlight, remoteMessages>>
  /\ UNCHANGED <<dispatcherVars, managerInputs, initThread, handlerCalls>>
  /\ Callbacks("queued", <<>>, FALSE)

\* startRun after the run-creation request is answered: on success the
\* remote service holds a new queued run; its status is signalled, it
\* becomes the active run and pollRunStatus() starts a chain.
CreateResponse(i) ==
  /\ calls[i].pc = "create"
  /\ \E ok \in BOOLEAN :
       IF ok THEN
         LET id == Len(remoteRuns) + 1
         IN  /\ remoteRuns' = Append(remoteRuns, Run(calls[i].thread, "queued", 0))
             /\ lastStatus' = "queued"
             /\ activeRunId' = id
             /\ chains' = pollRunStatus(chains, threadId, id)
             /\ calls' = [calls EXCEPT ![i].pc = "resolved"]
       ELSE
         /\ calls' = [calls EXCEPT ![i].pc = "rejected"]
         /\ UNCHANGED <<remoteRuns, lastStatus, activeRunId, chains>>
  /\ UNCHANGED <<assistant, threadId, initialized,
                 messages, initPc, initError, initRequests, initializedSignals,
                 refreshesInFlight, remoteMessages>>
  /\ UNCHANGED <<dispatcherVars, managerInputs, initThread, handlerCalls>>
  /\ Callbacks(IF calls'[i].pc = "resolved" THEN "queued" ELSE "none",
               <<>>, FALSE)

\* A tool call of a required-action payload; its id is its place in the
\* payload.  argsOk: whether function.arguments parses as JSON.
CallVariants ==
  { [type |-> "function", name |-> "f", argsOk |-> TRUE],
    [type |-> "function", name |-> "f", argsOk |-> FALSE],
    [type |-> "function", name |-> "g", argsOk |-> TRUE],
    [type |-> "function", name |-> "toString", argsOk |-> TRUE],
    [type |-> "code_interpreter", name |-> "", argsOk |-> TRUE] }

\* run.required_action as a status response carries it: a list of tool
\* calls, or (NoPayload) nothing that has submit_tool_outputs.tool_calls.
Payloads ==
  { [ok |-> TRUE, calls |-> cs] :
      cs \in { c \in SeqsUpTo(CallVariants, MaxToolCalls) : Len(c) >= 1 } }
    \cup {NoPayload}

\* What a handler returns when it returns.
HandlerOutput(name) == IF name = "f" THEN "output of f" ELSE "output of g"

\* What Object.prototype.toString returns when called on the function map.
InheritedOutput == "[object Object]"

Record(ch, result, outcome) ==
  [ch EXCEPT !.results[ch.idx] = result, !.outcomes[ch.idx] = outcome,
             !.idx = @ + 1]

\* One round of processToolActions' loop, for tool call ch.idx: a call that
\* is no function call is passed over; JSON.parse of the arguments, the
\* call of a value that is no function and the handler itself (returns)
\* can each throw, which records null; an inherited method is called like
\* a handler and its value recorded.
toolCallStep(ch, fns, returns) ==
  LET call == ch.payload.calls[ch.idx]
  IN  IF call.type # "function" THEN
        [ch EXCEPT !.outcomes[ch.idx] = "skipped", !.idx = @ + 1]
      ELSE IF ~call.argsOk THEN Record(ch, Null, "bad-args")
      ELSE IF Lookup(fns, call.name) = "undefined" THEN
        Record(ch, Null, "no-handler")
      ELSE IF Lookup(fns, call.name) = "inherited" THEN
        Record(ch, InheritedOutput, "inherited")
      ELSE IF returns THEN Record(ch, HandlerOutput(call.name), "returned")
      ELSE Record(ch, Null, "threw")

\* StatusResponse, had poll() armed its timer before awaiting
\* processToolActions: the dispatch would run with the next poll pending.
StatusResponse_armsTimerFirst(c) ==
  /\ chains[c].pc = "fetching"
  /\ \E ok \in BOOLEAN :
       LET ch    == chains[c]
           found == /\ ch.reqRun \in 1 .. Len(remoteRuns)
                    /\ remoteRuns[ch.reqRun].thread = ch.reqThread
       IN  IF ~(ok /\ found) THEN
             /\ chains' = [chains EXCEPT ![c].pc = "dead"]
             /\ UNCHANGED <<lastStatus, refreshesInFlight>>
           ELSE
             LET st      == remoteRuns[ch.reqRun].status
                 payload == remoteRuns[ch.reqRun].payload
             IN  /\ lastStatus' = st
                 /\ IF PollStops(st) THEN
                      /\ chains' = [chains EXCEPT ![c].pc = "stopped",
                                                   ![c].status = st,
                                                   ![c].scheduled = 0,
                                                   ![c].refreshes = @ + 1]
                      /\ refreshesInFlight' =
                           IF threadId # Undefined
                           THEN [refreshesInFlight EXCEPT ![threadId] = @ + 1]
                           ELSE refreshesInFlight
                    ELSE IF st = "requires_action" /\ payload.ok THEN
                      /\ chains' = [chains EXCEPT ![c].pc = "dispatching",
                                                   ![c].status = st,
                                                   ![c].scheduled = 1,
                                                   ![c].run = ch.reqRun,
                                                   ![c].payload = payload,
                                                   ![c].round =
                                                     remoteRuns[ch.reqRun].round,
                                                   ![c].idx = 1]
                      /\ UNCHANGED refreshesInFlight
                    ELSE
                      /\ chains' = [chains EXCEPT ![c].pc = "timer",
                                                   ![c].delay = pollInterval,
                                                   ![c].status = st,
                                                   ![c].scheduled = 1]
                      /\ UNCHANGED refreshesInFlight
  /\ UNCHANGED <<assistant, threadId, activeRunId,
                 initialized, messages, initPc, initError, initRequests,
                 initializedSignals, calls, remoteRuns, remoteMessages>>
  /\ UNCHANGED <<dispatcherVars, managerInputs, initThread, handlerCalls>>
  /\ Callbacks(IF chains'[c].pc = "dead" THEN "none" ELSE lastStatus',
               <<>>, FALSE)

\* poll() after the status request is answered.  A failed request throws
\* and ends the chain.  Otherwise the status is signalled; a stopping
\* status calls getMessages() and returns; requires_action starts the tool
\* dispatch (a payload without tool calls throws inside processToolActions,
\* which catches it); anything else arms the timer.
StatusResponse(c) ==
  /\ chains[c].pc = "fetching"
  /\ \E ok \in BOOLEAN :
       LET ch    == chains[c]
           found == /\ ch.reqRun \in 1 .. Len(remoteRuns)
                    /\ remoteRuns[ch.reqRun].thread = ch.reqThread
       IN  IF ~(ok /\ found) THEN
             /\ chains' = [chains EXCEPT ![c].pc = "dead"]
             /\ UNCHANGED <<lastStatus, refreshesInFlight>>
           ELSE
             LET st      == remoteRuns[ch.reqRun].status
                 payload == remoteRuns[ch.reqRun].payload
             IN  /\ lastStatus' = st
                 /\ IF PollStops(st) THEN
                      /\ chains' = [chains EXCEPT ![c].pc = "stopped",
                                                   ![c].status = st,
                                                   ![c].scheduled = 0,
                                                   ![c].refreshes = @ + 1]
                      /\ refreshesInFlight' =
                           IF threadId # Undefined
                           THEN [refreshesInFlight EXCEPT ![threadId] = @ + 1]
                           ELSE refreshesInFlight
                    ELSE IF st = "requires_action" /\ payload.ok THEN
                      /\ chains' = [chains EXCEPT ![c].pc = "dispatching",
                                                   ![c].status = st,
                                                   ![c].scheduled = 0,
                                                   ![c].run = ch.reqRun,
                                                   ![c].payload = payload,
                                                   ![c].round =
                                                     remoteRuns[ch.reqRun].round,
                                                   ![c].idx = 1]
                      /\ UNCHANGED refreshesInFlight
                    ELSE
                      /\ chains' = [chains EXCEPT ![c].pc = "timer",
                                                   ![c].delay = pollInterval,
                                                   ![c].status = st,
                                                   ![c].scheduled = 1]
                      /\ UNCHANGED refreshesInFlight
  /\ UNCHANGED <<assistant, threadId, activeRunId,
                 initialized, messages, initPc, initError, initRequests,
                 initializedSignals, calls, remoteRuns, remoteMessages>>
  /\ UNCHANGED <<dispatcherVars, managerInputs, initThread, handlerCalls>>
  /\ Callbacks(IF chains'[c].pc = "dead" THEN "none" ELSE lastStatus',
               <<>>, FALSE)

\* Whether the round of processToolActions' loop for tool call ch.idx calls
\* a handler of the function map: the call is a function call, its
\* arguments parse and the map has an own entry for its name.
InvokesHandler(ch, fns) ==
  LET call == ch.payload.calls[ch.idx]
  IN  /\ call.type = "function"
      /\ call.argsOk
      /\ Lookup(fns, call.name) = "own"

\* The invocation counts after one more invocation for key.
Counted(counts, key) ==
  IF key \in DOMAIN counts THEN [counts EXCEPT ![key] = 2]
  ELSE counts @@ (key :> 1)

\* processToolActions: the next tool call is handled, or, after the last
\* one, the tool-output request is issued with the result map.
DispatchStep(c) ==
  /\ chains[c].pc = "dispatching"
  /\ IF chains[c].idx <= Len(chains[c].payload.calls)
     THEN /\ \E returns \in BOOLEAN :
               chains' = [chains EXCEPT ![c] = toolCallStep(@, functions, returns)]
          /\ handlerCalls' =
               IF InvokesHandler(chains[c], functions)
               THEN Counted(handlerCalls,
                            <<chains[c].run, chains[c].round, chains[c].idx>>)
               ELSE handlerCalls
     ELSE /\ chains' = [chains EXCEPT ![c].pc = "submitting",
                                      ![c].submits = @ + 1,
                                      ![c].reqThread = threadId]
          /\ UNCHANGED handlerCalls
  /\ UNCHANGED <<assistant, threadId, activeRunId,
                 initialized, messages, initPc, initError, initRequests,
                 initializedSignals, lastStatus, calls, refreshesInFlight,
                 remoteRuns, remoteMessages>>
  /\ UNCHANGED <<dispatcherVars, managerInputs, initThread, hookVars>>

\* SubmitResponse, had processToolActions not caught the error it throws on a
\* failed tool-output request: the rejection would end poll() before it
\* arms the timer.
SubmitResponse_throwsOnFailure(c) ==
  /\ chains[c].pc = "submitting"
  /\ \E ok \in BOOLEAN :
       LET run == chains[c].run
       IN  /\ IF /\ ok
                 /\ remoteRuns[run].thread = chains[c].reqThread
                 /\ remoteRuns[run].status = "requires_action"
              THEN remoteRuns' = [remoteRuns EXCEPT ![run].status = "in_progress",
                                                 ![run].payload = NoPayload]
              ELSE UNCHANGED remoteRuns
           /\ IF ok
              THEN chains' = [chains EXCEPT ![c].pc = "timer",
                                            ![c].scheduled = @ + 1,
                                            ![c].delay = pollInterval]
              ELSE chains' = [chains EXCEPT ![c].pc = "dead"]
  /\ UNCHANGED <<assistant, threadId, activeRunId,
                 initialized, messages, initPc, initError, initRequests,
                 initializedSignals, lastStatus, calls, refreshesInFlight,
                 remoteMessages>>
  /\ UNCHANGED <<dispatcherVars, managerInputs, initThread, handlerCalls, hookVars>>

\* processToolActions after the tool-output request is answered (a failure
\* is caught and logged), then poll() arms the timer.  The remote service
\* accepts outputs only for a run that waits for them, and resumes it.
SubmitResponse(c) ==
  /\ chains[c].pc = "submitting"
  /\ \E ok \in BOOLEAN :
       LET run == chains[c].run
       IN  IF /\ ok
              /\ remoteRuns[run].thread = chains[c].reqThread
              /\ remoteRuns[run].status = "requires_action"
           THEN remoteRuns' = [remoteRuns EXCEPT ![run].status = "in_progress",
                                                 ![run].payload = NoPayload]
           ELSE UNCHANGED remoteRuns
  /\ chains' = [chains EXCEPT ![c].pc = "timer", ![c].scheduled = @ + 1,
                              ![c].delay = pollInterval]
  /\ UNCHANGED <<assistant, threadId, activeRunId,
                 initialized, messages, initPc, initError, initRequests,
                 initializedSignals, lastStatus, calls, refreshesInFlight,
                 remoteMessages>>
  /\ UNCHANGED <<dispatcherVars, managerInputs, initThread, handlerCalls, hookVars>>

\* The timer fires: poll() issues the next status request, for the thread
\* id and active run id the manager holds now.
TimerFires(c) ==
  /\ chains[c].pc = "timer"
  /\ chains' = [chains EXCEPT ![c] =
                  [NewChain(threadId, activeRunId)
                     EXCEPT !.status = chains[c].status,
                            !.scheduled = chains[c].scheduled,
                            !.forThread = chains[c].forThread,
                            !.forRun = chains[c].forRun]]
  /\ UNCHANGED <<assistant, threadId, activeRunId,
                 initialized, messages, initPc, initError, initRequests,
                 initializedSignals, lastStatus, calls, refreshesInFlight,
                 remoteRuns, remoteMessages>>
  /\ UNCHANGED <<dispatcherVars, managerInputs, initThread, handlerCalls, hookVars>>

\* The message request of a getMessages() call nobody awaits is answered.
RefreshLands ==
  /\ \E t \in AllThreadIds, ok \in BOOLEAN :
       /\ refreshesInFlight[t] > 0
       /\ refreshesInFlight' = [refreshesInFlight EXCEPT ![t] = @ - 1]
       /\ messages' = IF ok THEN Exposed(remoteMessages[t]) ELSE messages
       /\ Callbacks("none", IF ok THEN <<remoteMessages[t]>> ELSE <<>>, FALSE)
  /\ UNCHANGED <<assistant, threadId, activeRunId,
                 initialized, initPc, initError, initRequests,
                 initializedSignals, lastStatus, calls, chains, remoteRuns,
                 remoteMessages>>
  /\ UNCHANGED <<dispatcherVars, managerInputs, initThread, handlerCalls>>

\* The statuses the remote service can move a run to by itself.
NextStatuses(run) ==
  CASE run.status = "queued" -> {"in_progress", "cancelling", "failed", "expired"}
    [] run.status = "in_progress" ->
         {"completed", "failed", "cancelling", "expired"}
           \cup (IF run.round < MaxRounds THEN {"requires_action"} ELSE {})
    [] run.status = "requires_action" -> {"cancelling", "expired"}
    [] run.status = "cancelling" -> {"cancelled"}
    [] OTHER -> {}

\* The remote service moves a run on.
RemoteAdvance(r) ==
  /\ \E st \in NextStatuses(remoteRuns[r]) :
       \E p \in IF st = "requires_action" THEN remotePayloads ELSE {NoPayload} :
         remoteRuns' = [remoteRuns EXCEPT
                          ![r].status = st,
                          ![r].round = IF st = "requires_action" THEN @ + 1 ELSE @,
                          ![r].payload = p]
  /\ UNCHANGED <<assistant, threadId, activeRunId,
                 initialized, messages, initPc, initError, initRequests,
                 initializedSignals, lastStatus, calls, chains,
                 refreshesInFlight, remoteMessages>>
  /\ UNCHANGED <<dispatcherVars, managerInputs, initThread, handlerCalls, hookVars>>

\* One manager with its caller and the remote service; every request can
\* succeed or fail.  The assistant declares no tool or the function f, the
\* caller supplies f or nothing, a required-action payload holds one call
\* of f or no tool calls at all, and an earlier run of the thread is
\* queued, waiting for tool outputs or completed.
InitM ==
  /\ InitManager({{}, {"f"}}, {<<>>, <<[type |-> "function", name |-> "f"]>>},
                 {[ok |-> TRUE,
                   calls |-> <<[type |-> "function", name |-> "f", argsOk |-> TRUE]>>],
                  NoPayload},
                 {"queued", "requires_action", "completed"}, {<<>>}, {<<>>})
  /\ DispatcherIdle
  /\ HookAbsent

NextManager ==
  \/ InitAssistantResponse
  \/ InitThreadResponse
  \/ InitMessagesResponse
  \/ InitLatestRunResponse
  \/ CallSendMessage
  \/ CallStartRun
  \/ CallGetMessages
  \/ CallGetThread
  \/ CallCreateThread
  \/ \E i \in 1 .. Len(calls) : CreateThreadResponse(i)
  \/ \E i \in 1 .. Len(calls) : MessagesResponse(i)
  \/ \E i \in 1 .. Len(calls) : ThreadResponse(i)
  \/ \E i \in 1 .. Len(calls) : AppendResponse(i)
  \/ \E i \in 1 .. Len(calls) : RefreshResponse(i)
  \/ \E i \in 1 .. Len(calls) : CreateResponse(i)
  \/ \E c \in 1 .. Len(chains) : StatusResponse(c)
  \/ \E c \in 1 .. Len(chains) : DispatchStep(c)
  \/ \E c \in 1 .. Len(chains) : SubmitResponse(c)
  \/ \E c \in 1 .. Len(chains) : TimerFires(c)
  \/ RefreshLands
  \/ \E r \in 1 .. Len(remoteRuns) : RemoteAdvance(r)

SpecManager == InitM /\ [][NextManager]_vars

\* The messages a thread may hold when the manager is constructed: none, or
\* two, listed newest first.
Histories == {<<>>, <<2, 1>>}

\* One manager left alone by its caller: initialization, the poll chain of
\* a resumed run and its tool dispatch, for every function map, tool list
\* and payload.
InitR ==
  /\ InitManager(SUBSET FunctionNames, ToolLists, Payloads, Statuses,
                 SuppliedIntervals, Histories)
  /\ DispatcherIdle
  /\ HookAbsent

NextResume ==
  \/ InitAssistantResponse
  \/ InitThreadResponse
  \/ InitMessagesResponse
  \/ InitLatestRunResponse
  \/ \E c \in 1 .. Len(chains) : StatusResponse(c)
  \/ \E c \in 1 .. Len(chains) : DispatchStep(c)
  \/ \E c \in 1 .. Len(chains) : SubmitResponse(c)
  \/ \E c \in 1 .. Len(chains) : TimerFires(c)
  \/ RefreshLands
  \/ \E r \in 1 .. Len(remoteRuns) : RemoteAdvance(r)

SpecResume == InitR /\ [][NextResume]_vars

(***************************************************************************)
(* Claims about the ThreadManager                                          *)
(***************************************************************************)

\* The function tools the fetched assistant declares that have no entry in
\* the caller's function map.
UncoveredTools ==
  { remoteTools[k].name :
      k \in { j \in 1 .. Len(remoteTools) :
                /\ remoteTools[j].type = "function"
                /\ remoteTools[j].name \notin functions } }

\* C7: once the assistant is fetched, if it declares a function tool with no
\* entry in the function map, init() has failed with an error naming such
\* a function, onInitialized was not invoked, and init() has issued no
\* request but the one for the assistant.
C7_UncoveredFunctionFailsInit ==
  (assistant # NoAssistant /\ UncoveredTools # {}) =>
    /\ initPc = "failed"
    /\ initError \in UncoveredTools
    /\ initializedSignals = 0
    /\ ~initialized
    /\ initRequests = <<"assistant">>

TerminalStatuses == {"completed", "failed", "cancelled", "expired"}

\* C8: a poll chain whose last read status is terminal has stopped (it
\* issues no further status request) and has triggered exactly one message
\* refresh; one whose last read status is any other status has triggered
\* no refresh and, once its cycle is over, has armed exactly one timer for
\* one further poll.
C8_PollStopsOnTerminalOnly ==
  \A c \in 1 .. Len(chains) :
    LET ch == chains[c]
    IN  /\ ch.status \in TerminalStatuses =>
              ch.pc = "stopped" /\ ch.refreshes = 1 /\ ch.scheduled = 0
        /\ ch.status \in Statuses \ TerminalStatuses =>
              /\ ch.refreshes = 0
              /\ ch.pc \in {"dispatching", "submitting", "timer", "fetching", "dead"}
              /\ ch.scheduled = IF ch.pc \in {"dispatching", "submitting"} THEN 0 ELSE 1
        /\ ch.status = "none" =>
              ch.pc \in {"fetching", "dead"} /\ ch.refreshes = 0 /\ ch.scheduled = 0

C8_Witness ==
  \E c \in 1 .. Len(chains) :
    /\ chains[c].pc = "stopped"
    /\ chains[c].status = "completed"
    /\ chains[c].refreshes = 1
    /\ remoteRuns[chains[c].reqRun].round = 1

\* C9: the dispatch of a required-action payload issues exactly one
\* tool-output request; its result map has a key for each function-type
\* tool call and for no other call, holding the handler's string when the
\* handler returned and null when it threw, is missing or its arguments do
\* not parse; every function call with a handler and parsable arguments
\* has its handler invoked, whatever became of the calls before it.
C9_OneSubmissionWithEveryResult ==
  \A c \in 1 .. Len(chains) :
    LET ch == chains[c]
        n  == Len(ch.payload.calls)
    IN  (ch.status = "requires_action" /\ ch.payload.ok) =>
          /\ ch.pc \in {"dispatching", "submitting", "timer"}
          /\ ch.pc = "dispatching" => ch.submits = 0
          /\ ch.pc \in {"submitting", "timer"} =>
                /\ ch.submits = 1
                /\ \A k \in ToolCallIds :
                     IF k <= n /\ ch.payload.calls[k].type = "function" THEN
                       LET call == ch.payload.calls[k]
                           invocable == call.argsOk /\ call.name \in functions
                       IN  /\ invocable <=> ch.outcomes[k] \in {"returned", "threw"}
                           /\ ch.results[k] =
                                IF invocable /\ ch.outcomes[k] = "returned"
                                THEN HandlerOutput(call.name)
                                ELSE Null
                     ELSE ch.results[k] = Absent

\* C10: a sendMessage call that resolved has issued exactly the
\* message-append request, then the message refresh, then the run-creation
\* request, also when a run was tracked as active; one still under way has
\* issued a prefix of these.
C10_SendAppendsRefreshesStartsRun ==
  \A i \in 1 .. Len(calls) :
    calls[i].op = "sendMessage" =>
      /\ calls[i].pc = "resolved" =>
            calls[i].trace = <<"append", "refresh", "create">>
      /\ calls[i].pc = "append" => calls[i].trace = <<"append">>
      /\ calls[i].pc = "refresh" => calls[i].trace = <<"append", "refresh">>
      /\ calls[i].pc = "create" =>
            calls[i].trace = <<"append", "refresh", "create">>

C10_Witness ==
  \E i \in 1 .. Len(calls) :
    /\ calls[i].op = "sendMessage"
    /\ calls[i].pc = "resolved"
    /\ calls[i].hadActiveRun
    /\ calls[i].trace = <<"append", "refresh", "create">>
    /\ Len(chains) = 2
    /\ chains[1].pc # "stopped"

\* The chains that still have a status request in flight, a tool dispatch
\* in progress or a timer armed.
Alive(ch) == ch.pc \in {"fetching", "dispatching", "submitting", "timer"}

\* C11: a poll chain that is no longer alive has read a terminal status:
\* a failed status request does not end it.
C11_ChainEndsOnlyOnTerminalStatus ==
  \A c \in 1 .. Len(chains) :
    ~Alive(chains[c]) =>
      chains[c].pc = "stopped" /\ chains[c].status \in TerminalStatuses

\* C12: at most one poll chain of the manager is alive.
C12_AtMostOneChainAlive ==
  Cardinality({ c \in 1 .. Len(chains) : Alive(chains[c]) }) <= 1

\* The requests a completed init() has issued.
AllInitRequests ==
  IF threadId = Undefined THEN <<"assistant">>
  ELSE <<"assistant", "thread", "messages", "latest-run">>

\* C13: onInitialized is invoked at most once; it has been invoked exactly
\* when init() has run to its end, which is after the assistant was
\* fetched and found covered and, with a thread id, after the thread, the
\* message and the latest-run requests were issued and answered; an init()
\* that failed or is under way has not invoked it.
C13_InitializedSignalledOnceAtEnd ==
  /\ initializedSignals <= 1
  /\ initializedSignals = 1 <=> initPc = "done"
  /\ initPc = "done" =>
       /\ initialized
       /\ assistant # NoAssistant
       /\ checkAssistantFunctions(assistant, functions) = ""
       /\ initRequests = AllInitRequests

C13_Witness ==
  /\ initPc = "done"
  /\ initializedSignals = 1
  /\ threadId = "T1"
  /\ initRequests = <<"assistant", "thread", "messages", "latest-run">>
  /\ remoteTools # <<>>

\* C15: init() with a thread id creates no run; until the latest-run
\* request is answered no run is active and no chain polls; when it is
\* answered, the thread's latest run becomes the active run, its status is
\* signalled and one poll chain is started for it if the run exists and
\* its status is none of completed, failed, cancelled, expired and
\* cancelling, and otherwise the active run id stays unset and no chain
\* is started.
C15_InitResumesOnlyALiveRun ==
  /\ [](/\ Len(remoteRuns) <= 1
        /\ \A k \in 1 .. Len(initRequests) : initRequests[k] # "create"
        /\ initPc # "done" => activeRunId = 0 /\ chains = <<>>)
  /\ [][(initPc = "checkForActiveRun" /\ initPc' = "done") =>
         LET run == LatestRun(remoteRuns, threadId)
         IN  /\ remoteRuns' = remoteRuns
             /\ IF /\ run # 0
                   /\ remoteRuns[run].status \notin
                        {"completed", "failed", "cancelled", "expired", "cancelling"}
                THEN /\ activeRunId' = run
                     /\ lastStatus' = remoteRuns[run].status
                     /\ chains' = <<NewChain(threadId, run)>>
                ELSE /\ activeRunId' = 0
                     /\ lastStatus' = "none"
                     /\ chains' = <<>>]_vars

C15_Witness ==
  /\ initPc = "done"
  /\ threadId = "T1"
  /\ activeRunId = 1
  /\ Len(chains) = 1
  /\ lastStatus = "requires_action"
  /\ Len(remoteRuns) = 1

\* C14: the delay of an armed poll timer is the pollInterval the manager
\* was constructed with when one was supplied, and 2000 ms otherwise.
C14_DelayIsSuppliedInterval ==
  \A c \in 1 .. Len(chains) :
    chains[c].pc = "timer" =>
      chains[c].delay = IF pollIntervalArg = <<>> THEN 2000
                        ELSE pollIntervalArg[1]

\* C16: a sendMessage, startRun, getMessages or getThread made without a
\* thread id is rejected without having issued a request; a sendMessage whose append request fails is rejected
\* having issued neither a message refresh nor a run creation; a startRun
\* whose run-creation request fails is rejected and leaves the active run
\* id, the status last signalled and the poll chains as they were; a
\* rejected call does nothing further.
C16_FailedCallLeavesLaterStepsUndone ==
  /\ [](threadId = Undefined =>
          \A i \in 1 .. Len(calls) :
            calls[i].op # "createThread" =>
              calls[i].pc = "rejected" /\ calls[i].trace = <<>>)
  /\ [][\A i \in 1 .. Len(calls) :
          /\ (calls[i].pc = "append" /\ calls'[i].pc = "rejected") =>
                /\ calls'[i].trace = <<"append">>
                /\ UNCHANGED <<messages, remoteRuns, activeRunId, lastStatus, chains>>
          /\ (calls[i].pc = "create" /\ calls'[i].pc = "rejected") =>
                /\ calls'[i].trace = calls[i].trace
                /\ UNCHANGED <<remoteRuns, activeRunId, lastStatus, chains>>
          /\ calls[i].pc = "rejected" => calls'[i] = calls[i]]_vars

C16_Witness ==
  \E i \in 1 .. Len(calls) :
    /\ calls[i].op = "startRun"
    /\ calls[i].pc = "rejected"
    /\ calls[i].trace = <<"create">>
    /\ threadId = "T1"
    /\ activeRunId = 1
    /\ Len(chains) = 1
    /\ Alive(chains[1])

(***************************************************************************)
(* The useThread hook.  The ThreadManager it constructs is its             *)
(* environment here: it invokes the three callbacks the hook handed to it  *)
(* and fulfils or rejects the operations the hook dispatches.              *)
(***************************************************************************)

MaxHookOps == 1

\* The message lists a manager can deliver ({ data } of a message page).
MessageLists == {<<>>, <<1>>, <<1, 2>>}

\* The error of `throw new Error("Thread manager not initialized")`.
NoManagerError == "Thread manager not initialized"

\* The errors the manager's operations reject with.
ManagerError ==
  [sendMessage |-> "Failed to send message",
   startRun |-> "Failed to start run",
   createNewThread |-> "Failed to create thread",
   getThread |-> "Failed to retrieve thread"]

\* The wrapped actions the hook returns.
WrappedActions == {"sendMessage", "startRun", "createNewThread"}

\* One handleOperation call: the operation, whether its promise is
\* "pending" or "settled", how the promise handleOperation returned
\* settled ("value", "undefined" or "rejected"), whether a manager
\* operation was dispatched and what loading was when it was dispatched,
\* whether the catch block ran and with which error.
HookOp(op) ==
  [op |-> op, pc |-> "pending", result |-> "none", dispatched |-> FALSE,
   loadingAtDispatch |-> FALSE, caught |-> FALSE, error |-> "null"]

\* A handleOperation without its catch block.
handleOperation_rethrows(o, outcome, error) ==
  IF outcome = "fulfilled"
  THEN [o EXCEPT !.pc = "settled", !.result = "value"]
  ELSE [o EXCEPT !.pc = "settled", !.result = "rejected", !.error = error]

\* handleOperation once operation() has thrown, rejected or fulfilled: the
\* result is returned, or the catch block runs and nothing is returned.
handleOperation(o, outcome, error) ==
  IF outcome = "fulfilled"
  THEN [o EXCEPT !.pc = "settled", !.result = "value"]
  ELSE [o EXCEPT !.pc = "settled", !.result = "undefined", !.caught = TRUE,
                 !.error = error]

\* The state after the first render: the manager exists in the ref, the
\* render's own threadManager constant was read before it was created, and
\* the effect is to run.
InitHook ==
  /\ hThreadIdArg \in ThreadIds \cup {Undefined}
  /\ hMessages = <<>>
  /\ hRunStatus = "null"
  /\ hThread = "null"
  /\ hError = "null"
  /\ hLoading = FALSE
  /\ hInitializing = TRUE
  /\ closure = [threadManager |-> "null", thread |-> "null"]
  /\ effectDue = TRUE
  /\ hookOps = <<>>
  /\ setMessagesCalled = FALSE

\* A later render: threadManager is read from the ref, the callbacks are
\* made anew when it changed, and the effect is due when one of threadId,
\* threadManager and thread changed.
Render ==
  LET next == [threadManager |-> "manager", thread |-> hThread]
  IN  /\ next # closure
      /\ closure' = next
      /\ effectDue' = TRUE
      /\ setMessagesCalled' = FALSE
      /\ UNCHANGED <<hThreadIdArg, hMessages, hRunStatus, hThread, hError,
                     hLoading, hInitializing, hookOps>>
      /\ UNCHANGED <<dispatcherVars, managerVars>>

\* handleOperation(() => { if (!threadManager) throw ...; [setLoading(true);]
\* return threadManager.<op>(...) }): without a manager in the closure the
\* operation throws at once; otherwise the manager operation is dispatched,
\* after setLoading(true) for the operations that call it.
StartOperation(op, setsLoading) ==
  IF closure.threadManager = "null" THEN
    LET o == handleOperation(HookOp(op), "threw", NoManagerError)
    IN  /\ hookOps' = Append(hookOps, o)
        /\ hLoading' = IF o.caught THEN FALSE ELSE hLoading
        /\ hError' = IF o.caught THEN o.error ELSE hError
        /\ setMessagesCalled' = FALSE
  ELSE
    LET loading == IF setsLoading THEN TRUE ELSE hLoading
    IN  /\ hLoading' = loading
        /\ hookOps' = Append(hookOps,
                         [HookOp(op) EXCEPT !.dispatched = TRUE,
                                            !.loadingAtDispatch = loading])
        /\ setMessagesCalled' = FALSE
        /\ UNCHANGED hError

\* The wrapped sendMessage.
HookSendMessage ==
  /\ Cardinality({ i \in 1 .. Len(hookOps) : hookOps[i].op \in WrappedActions })
       < MaxHookOps
  /\ StartOperation("sendMessage", TRUE)
  /\ UNCHANGED <<hThreadIdArg, hMessages, hRunStatus, hThread, hInitializing,
                 closure, effectDue>>
  /\ UNCHANGED <<dispatcherVars, managerVars>>

\* The wrapped startRun.
HookStartRun ==
  /\ Cardinality({ i \in 1 .. Len(hookOps) : hookOps[i].op \in WrappedActions })
       < MaxHookOps
  /\ StartOperation("startRun", TRUE)
  /\ UNCHANGED <<hThreadIdArg, hMessages, hRunStatus, hThread, hInitializing,
                 closure, effectDue>>
  /\ UNCHANGED <<dispatcherVars, managerVars>>

\* The wrapped createNewThread: it dispatches createThread without a
\* setLoading call.
HookCreateNewThread ==
  /\ Cardinality({ i \in 1 .. Len(hookOps) : hookOps[i].op \in WrappedActions })
       < MaxHookOps
  /\ StartOperation("createNewThread", FALSE)
  /\ UNCHANGED <<hThreadIdArg, hMessages, hRunStatus, hThread, hInitializing,
                 closure, effectDue>>
  /\ UNCHANGED <<dispatcherVars, managerVars>>

\* The effect: with a thread id and no thread in the state yet it fetches
\* the thread through handleOperation.
Effect ==
  /\ effectDue
  /\ effectDue' = FALSE
  /\ IF hThreadIdArg = Undefined \/ closure.thread # "null"
     THEN /\ setMessagesCalled' = FALSE
          /\ UNCHANGED <<hLoading, hError, hookOps>>
     ELSE StartOperation("getThread", FALSE)
  /\ UNCHANGED <<hThreadIdArg, hMessages, hRunStatus, hThread, hInitializing,
                 closure>>
  /\ UNCHANGED <<dispatcherVars, managerVars>>

\* The manager operation of handleOperation call i settles: the success
\* callback (setThread, for createNewThread and the effect) gets the
\* result, or the catch block sets loading and the error.
Settle(i) ==
  /\ hookOps[i].pc = "pending"
  /\ \E outcome \in {"fulfilled", "rejected"} :
       LET o == handleOperation(hookOps[i], outcome, ManagerError[hookOps[i].op])
       IN  /\ hookOps' = [hookOps EXCEPT ![i] = o]
           /\ hThread' = IF outcome = "fulfilled"
                              /\ o.op \in {"createNewThread", "getThread"}
                          THEN "thread" ELSE hThread
           /\ hLoading' = IF o.caught THEN FALSE ELSE hLoading
           /\ hError' = IF o.caught THEN o.error ELSE hError
           /\ setMessagesCalled' = FALSE
  /\ UNCHANGED <<hThreadIdArg, hMessages, hRunStatus, hInitializing, closure,
                 effectDue>>
  /\ UNCHANGED <<dispatcherVars, managerVars>>

\* onInitialized
OnInitialized ==
  /\ hInitializing
  /\ hInitializing' = FALSE
  /\ setMessagesCalled' = FALSE
  /\ UNCHANGED <<hThreadIdArg, hMessages, hRunStatus, hThread, hError,
                 hLoading, closure, effectDue, hookOps>>
  /\ UNCHANGED <<dispatcherVars, managerVars>>

\* onMessagesUpdated({ data }): the list is compared with the messages the
\* callback closed over and, when they differ, reversed and stored.
OnMessagesUpdated(data) ==
  LET differs == ~(FirstRenderMessages = data)
  IN  /\ hMessages' = IF differs THEN Reverse(data) ELSE hMessages
      /\ setMessagesCalled' = differs
      /\ UNCHANGED <<hThreadIdArg, hRunStatus, hThread, hError, hLoading,
                     hInitializing, closure, effectDue, hookOps>>
      /\ UNCHANGED <<dispatcherVars, managerVars>>

\* An onRunStatusChanged for which "cancelling" ends loading too.
OnRunStatusChanged_cancellingEnds(status) ==
  /\ hLoading' =
       IF status \in {"in_progress", "queued", "requires_action"} THEN TRUE
       ELSE IF status \in {"completed", "failed", "cancelled", "expired",
                           "cancelling"} THEN FALSE
       ELSE hLoading
  /\ hRunStatus' = IF FirstRenderRunStatus # status THEN status ELSE hRunStatus
  /\ setMessagesCalled' = FALSE
  /\ UNCHANGED <<hThreadIdArg, hMessages, hThread, hError, hInitializing,
                 closure, effectDue, hookOps>>
  /\ UNCHANGED <<dispatcherVars, managerVars>>

\* onRunStatusChanged(status): loading is set by the two lists, and the
\* status is stored when it differs from the runStatus the callback
\* closed over.
OnRunStatusChanged(status) ==
  /\ hLoading' =
       IF status \in {"in_progress", "queued", "requires_action"} THEN TRUE
       ELSE IF status \in {"completed", "failed", "cancelled", "expired"} THEN FALSE
       ELSE hLoading
  /\ hRunStatus' = IF FirstRenderRunStatus # status THEN status ELSE hRunStatus
  /\ setMessagesCalled' = FALSE
  /\ UNCHANGED <<hThreadIdArg, hMessages, hThread, hError, hInitializing,
                 closure, effectDue, hookOps>>
  /\ UNCHANGED <<dispatcherVars, managerVars>>

InitH == InitHook /\ DispatcherIdle /\ ManagerAbsent

NextHook ==
  \/ Render
  \/ Effect
  \/ HookSendMessage
  \/ HookStartRun
  \/ HookCreateNewThread
  \/ \E i \in 1 .. Len(hookOps) : Settle(i)
  \/ OnInitialized
  \/ \E data \in MessageLists : OnMessagesUpdated(data)
  \/ \E status \in Statuses : OnRunStatusChanged(status)

SpecHook == InitH /\ [][NextHook]_vars

(***************************************************************************)
(* Claims about the hook                                                   *)
(***************************************************************************)

\* C17: an onMessagesUpdated that delivers a non-empty list equal to the
\* one in the hook's message state does not call setMessages.
C17_UnchangedListSkipsSetter ==
  [][\A data \in MessageLists :
       (OnMessagesUpdated(data) /\ data # <<>> /\ data = hMessages) =>
         ~setMessagesCalled']_vars

\* C18: an onRunStatusChanged(status) leaves loading true for in_progress,
\* queued and requires_action, false for completed, failed, cancelled and
\* expired, and as it was for any other status, and leaves the run-status
\* state equal to the status; nothing else changes the run-status state.
C18_StatusEventSetsLoadingAndStatus ==
  [][/\ \A status \in Statuses :
          OnRunStatusChanged(status) =>
            /\ hLoading' =
                 IF status \in {"in_progress", "queued", "requires_action"} THEN TRUE
                 ELSE IF status \in {"completed", "failed", "cancelled", "expired"}
                      THEN FALSE
                 ELSE hLoading
            /\ hRunStatus' = status
     /\ (~ \E status \in Statuses : OnRunStatusChanged(status)) =>
          hRunStatus' = hRunStatus]_vars

C18_Witness ==
  /\ hRunStatus = "cancelling"
  /\ hLoading
  /\ \E i \in 1 .. Len(hookOps) : hookOps[i].op = "sendMessage" /\ hookOps[i].dispatched

\* A handleOperation call of a wrapped action that has just settled.
JustSettled(i) ==
  /\ hookOps'[i].op \in WrappedActions
  /\ hookOps'[i].pc = "settled"
  /\ i > Len(hookOps) \/ hookOps[i].pc = "pending"

\* C19: the promise of a wrapped action is never rejected; when the
\* operation behind it threw or rejected, the promise resolves with no
\* value and leaves the error state at that error and loading false.
C19_WrappedActionsNeverReject ==
  /\ [](\A i \in 1 .. Len(hookOps) : hookOps[i].result # "rejected")
  /\ [][\A i \in 1 .. Len(hookOps') :
          (JustSettled(i) /\ hookOps'[i].result # "value") =>
            /\ hookOps'[i].result = "undefined"
            /\ hError' = IF hookOps'[i].dispatched
                          THEN ManagerError[hookOps'[i].op]
                          ELSE NoManagerError
            /\ hLoading' = FALSE]_vars

C19_Witness ==
  \E i \in 1 .. Len(hookOps) :
    /\ hookOps[i].op = "sendMessage"
    /\ hookOps[i].dispatched
    /\ hookOps[i].pc = "settled"
    /\ hookOps[i].result = "undefined"
    /\ hError = "Failed to send message"
    /\ ~hLoading

\* C20: when a wrapped action dispatches its manager operation, loading
\* has been set to true.
C20_LoadingSetBeforeDispatch ==
  \A i \in 1 .. Len(hookOps) :
    (hookOps[i].op \in WrappedActions /\ hookOps[i].dispatched) =>
      hookOps[i].loadingAtDispatch

RECURSIVE OldestFirst(_)
\* A list of messages (numbered in the order of their creation) that is in
\* ascending order.
OldestFirst(list) ==
  Len(list) <= 1 \/ (list[1] < list[2] /\ OldestFirst(Tail(list)))

\* C21: the message list the manager holds and hands to onMessagesUpdated
\* is ordered oldest first.
C21_ManagerExposesOldestFirst == OldestFirst(messages)

\* C26: a manager whose initialisation has not completed, or whose coverage
\* check failed, never creates a run, never starts a polling chain and never
\* dispatches tool calls; and whenever tool calls are dispatched every
\* function tool the assistant declares has a handler.
C26_OnlyACoveredManagerOperates ==
  /\ ~initialized =>
       /\ chains = <<>>
       /\ \A i \in 1..Len(calls) :
            \A k \in 1..Len(calls[i].trace) : calls[i].trace[k] # "create"
  /\ \A c \in 1..Len(chains) :
       chains[c].pc = "dispatching" => UncoveredTools = {}

\* C22: a poll that reads requires_action always leads to another poll:
\* the status response either starts the dispatch or (payload missing or
\* malformed) arms the timer at once; every dispatch step handles one more
\* tool call or issues the tool-output request, whatever the handler did;
\* and the answer to that request, success or failure, arms the timer.
C22_RequiresActionAlwaysReschedules ==
  [][\A c \in 1 .. Len(chains) :
       LET a == chains[c]
           b == chains'[c]
       IN  a # b =>
             /\ (a.pc = "fetching" /\ b.pc # "dead"
                    /\ b.status = "requires_action") =>
                  \/ b.pc = "dispatching" /\ b.idx = 1
                  \/ b.pc = "timer" /\ b.scheduled = 1
             /\ a.pc = "dispatching" =>
                  \/ b.pc = "dispatching" /\ b.idx = a.idx + 1
                  \/ b.pc = "submitting"
                       /\ a.idx = Len(a.payload.calls) + 1
             /\ a.pc = "submitting" =>
                  b.pc = "timer" /\ b.scheduled = 1]_vars

\* A chain that read requires_action, ran a handler that threw, issued
\* the tool-output request, which did not resume the run, and has its
\* timer armed.
C22_Witness ==
  \E c \in 1 .. Len(chains) :
    /\ chains[c].pc = "timer"
    /\ chains[c].status = "requires_action"
    /\ chains[c].scheduled = 1
    /\ chains[c].submits = 1
    /\ \E k \in DOMAIN chains[c].outcomes : chains[c].outcomes[k] = "threw"
    /\ remoteRuns[chains[c].run].status = "requires_action"

\* C23: within one chain a cycle arms at most one timer, and only once the
\* cycle is complete: no timer is armed while the tool calls are dispatched
\* or the tool-output request is outstanding, and the chain issues a status
\* request only when its timer fires, so that it never has two status
\* requests outstanding nor one during a dispatch.
C23_TimerArmedAfterCycleCompletes ==
  /\ [](\A c \in 1 .. Len(chains) :
          /\ chains[c].scheduled <= 1
          /\ chains[c].pc \in {"dispatching", "submitting"} =>
               chains[c].scheduled = 0
          /\ chains[c].pc = "timer" => chains[c].scheduled = 1)
  /\ [][\A c \in 1 .. Len(chains) :
          (chains[c] # chains'[c] /\ chains'[c].pc = "fetching") =>
            chains[c].pc = "timer"]_vars

\* A chain whose cycle dispatched a tool call, submitted its output and
\* resumed the run, with the one timer of that cycle armed.
C23_Witness ==
  \E c \in 1 .. Len(chains) :
    /\ chains[c].pc = "timer"
    /\ chains[c].scheduled = 1
    /\ chains[c].submits = 1
    /\ \E k \in DOMAIN chains[c].outcomes :
         chains[c].outcomes[k] = "returned"
    /\ remoteRuns[chains[c].run].status = "in_progress"

\* C28: every status request of a chain asks for the run the chain was
\* started for, so that each run created or resumed is polled until a
\* terminal status is observed for it, also when startRun or sendMessage is
\* called again while the chain is alive.
C28_ChainPollsTheRunItWasStartedFor ==
  \A c \in 1 .. Len(chains) : chains[c].reqRun = chains[c].forRun

\* C29: every status request and every tool-output request names a run
\* together with the thread in which that run was created, however
\* createThread interleaves with a live chain.
C29_RequestsPairRunWithItsThread ==
  \A c \in 1 .. Len(chains) :
    /\ chains[c].pc = "fetching" =>
         remoteRuns[chains[c].reqRun].thread = chains[c].reqThread
    /\ chains[c].pc = "submitting" =>
         remoteRuns[chains[c].run].thread = chains[c].reqThread

\* C24: for a given run and tool call id, the handler is invoked at most
\* once over the manager's lifetime.
C24_EachToolCallHandledOnce ==
  \A key \in DOMAIN handlerCalls : handlerCalls[key] = 1

\* C27: the run-creation operation creates the run for the assistant id of
\* the request path, whatever the request body holds.
C27_RunCreatedForPathAssistant ==
  \A k \in 1 .. Len(invocations) :
    (invocations[k].op = "handleStartRun" /\ response.status = 200) =>
      handleStartRun(invocations[k].args).assistant_id = request.assistantId

(***************************************************************************)
(* The hook with the manager it constructs.  The manager's callbacks are   *)
(* the hook's; each request of the manager is answered as the flag         *)
(* `routed` says: by this repository's route handler in front of a remote  *)
(* service that answers every operation (TRUE), or successfully (FALSE).   *)
(***************************************************************************)

\* The request the manager sends for `method` and the path segments after
\* /api/ai/assistants/{assistantId}/.
ManagerRequest(method, params) ==
  [method |-> method, params |-> params,
   body |-> IF method = "POST" THEN "json" ELSE "none", assistantId |-> "asst1"]

\* Whether the route handler answers that request 200 when the remote
\* service answers the operation.
Served(method, params) ==
  createAssistantRoutes(ManagerRequest(method, params), TRUE).response.status = 200

\* Whether a request is answered successfully.
Answers(routed, method, params) == routed => Served(method, params)

\* The path segment of a run id.
RunSegment == "run1"

\* GET {assistantId}/_
AnsweredInitAssistant(routed) ==
  /\ InitAssistantResponse
  /\ (assistant' # NoAssistant) <=> Answers(routed, "GET", <<"_">>)

\* GET threads/{threadId}/_
AnsweredInitThread(routed) ==
  /\ InitThreadResponse
  /\ (initPc' # "failed") <=> Answers(routed, "GET", <<"threads", initThread, "_">>)

\* GET threads/{threadId}/messages
AnsweredInitMessages(routed) ==
  /\ InitMessagesResponse
  /\ (initPc' # "failed") <=>
       Answers(routed, "GET", <<"threads", initThread, "messages">>)

\* GET threads/{threadId}/runs/latest
AnsweredInitLatestRun(routed) ==
  /\ InitLatestRunResponse
  /\ (initPc' # "failed") <=>
       Answers(routed, "GET", <<"threads", initThread, "runs", "latest">>)

\* POST threads/{threadId}/runs/_
AnsweredCreate(i, routed) ==
  /\ CreateResponse(i)
  /\ (calls'[i].pc = "resolved") <=>
       Answers(routed, "POST", <<"threads", calls[i].thread, "runs", "_">>)

\* GET threads/{threadId}/runs/{runId}/status
AnsweredStatus(c, routed) ==
  /\ StatusResponse(c)
  /\ (chains'[c].pc # "dead") <=>
       Answers(routed, "GET",
               <<"threads", chains[c].reqThread, "runs", RunSegment, "status">>)

\* POST threads/{threadId}/runs/{runId}/process-fns: when the request is
\* answered successfully a run that waits for the outputs is resumed.
AnsweredSubmit(c, routed) ==
  /\ SubmitResponse(c)
  /\ remoteRuns[chains[c].run].status = "requires_action" =>
       ((remoteRuns'[chains[c].run].status = "in_progress") <=>
          Answers(routed, "POST",
                  <<"threads", chains[c].reqThread, "runs", RunSegment,
                    "process-fns">>))

\* The hook's own thread fetch is fulfilled.
FulfilledSettle(i) ==
  /\ Settle(i)
  /\ hookOps'[i].result = "value"

\* The one-call payload of a run that waits for tool outputs.
CallOfF == [ok |-> TRUE,
            calls |-> <<[type |-> "function", name |-> "f", argsOk |-> TRUE]>>]

\* The hook after its first render, for the manager it has constructed
\* with its threadId option.
InitMounted(fnMaps, payloads, earlier, histories) ==
  /\ InitManager(fnMaps, {<<[type |-> "function", name |-> "f"]>>},
                 payloads, earlier, {<<>>}, histories)
  /\ DispatcherIdle
  /\ InitHook
  /\ hThreadIdArg = threadId

\* A thread whose latest run is queued, waits for tool outputs or has
\* completed, with or without the handler and the tool-call payload.
InitLive ==
  InitMounted({{}, {"f"}}, {CallOfF, NoPayload},
              {"queued", "requires_action", "completed"}, {<<>>})

\* Any thread, with or without the handler.
InitRouted ==
  InitMounted({{}, {"f"}}, {CallOfF, NoPayload},
              {"queued", "requires_action", "cancelling", "completed"},
              Histories)

\* The steps of the manager, its caller and the remote service.  A message
\* refresh nobody awaits may fail or succeed.
NextManaged(routed) ==
  \/ AnsweredInitAssistant(routed)
  \/ AnsweredInitThread(routed)
  \/ AnsweredInitMessages(routed)
  \/ AnsweredInitLatestRun(routed)
  \/ CallStartRun
  \/ \E i \in 1 .. Len(calls) : AnsweredCreate(i, routed)
  \/ \E c \in 1 .. Len(chains) : AnsweredStatus(c, routed)
  \/ \E c \in 1 .. Len(chains) : DispatchStep(c)
  \/ \E c \in 1 .. Len(chains) : AnsweredSubmit(c, routed)
  \/ \E c \in 1 .. Len(chains) : TimerFires(c)
  \/ RefreshLands
  \/ \E r \in 1 .. Len(remoteRuns) : RemoteAdvance(r)

\* Every request succeeds.  The callbacks the manager calls are those of the
\* hook's first render, which set the loading flag whatever was rendered
\* since; the hook's later renders and its own thread fetch are left to
\* SpecHook and SpecRouted.
NextLive == NextManaged(FALSE)

\* Every request goes through the route handler, while the hook renders,
\* runs its effect and fetches the thread.
NextRouted ==
  \/ NextManaged(TRUE)
  \/ Render
  \/ Effect
  \/ \E i \in 1 .. Len(hookOps) : FulfilledSettle(i)

\* A chain or run there can be: the resumed one and one per call.
Slots == 1 .. MaxCalls + 1

\* Every response arrives, every timer fires, every handler settles and
\* the remote service moves every run on until it is terminal.  The caller
\* need not call.
FairLive ==
  /\ WF_vars(AnsweredInitAssistant(FALSE))
  /\ WF_vars(AnsweredInitThread(FALSE))
  /\ WF_vars(AnsweredInitMessages(FALSE))
  /\ WF_vars(AnsweredInitLatestRun(FALSE))
  /\ WF_vars(RefreshLands)
  /\ \A i \in Slots :
       /\ WF_vars(i <= Len(calls) /\ AnsweredCreate(i, FALSE))
       /\ WF_vars(i <= Len(chains) /\ AnsweredStatus(i, FALSE))
       /\ WF_vars(i <= Len(chains) /\ DispatchStep(i))
       /\ WF_vars(i <= Len(chains) /\ AnsweredSubmit(i, FALSE))
       /\ WF_vars(i <= Len(chains) /\ TimerFires(i))
       /\ WF_vars(i <= Len(remoteRuns) /\ RemoteAdvance(i))

SpecLive == InitLive /\ [][NextLive]_vars /\ FairLive

SpecRouted == InitRouted /\ [][NextRouted]_vars

\* C25: when every request succeeds, the timers fire and the remote runs
\* become terminal, there is a point from which on every poll chain has
\* stopped, the status signalled last (if any was) is terminal and the
\* hook's loading flag is false.
C25_ChainsStopAndLoadingEnds ==
  <>[](/\ \A c \in 1 .. Len(chains) : chains[c].pc = "stopped"
       /\ chains # <<>> => lastStatus \in TerminalStatuses
       /\ ~hLoading)

\* Two chains, the resumed one and the one of a startRun, have stopped on
\* a completed run and the hook is no longer loading.
C25_Witness ==
  /\ Len(chains) = 2
  /\ \A c \in 1 .. 2 : chains[c].pc = "stopped" /\ chains[c].status = "completed"
  /\ lastStatus = "completed"
  /\ hRunStatus = "completed"
  /\ handlerCalls # <<>>
  /\ ~hLoading

\* C30: with the requests served by the route handler and the remote
\* service answering every operation, once the init() of a manager that
\* was constructed with a thread id and covers the assistant's functions
\* has ended, onInitialized has been signalled and the hook's initializing
\* flag is false.
C30_InitOfExistingThreadCompletes ==
  ( /\ hThreadIdArg # Undefined
    /\ UncoveredTools = {}
    /\ initPc \in {"done", "failed"} ) =>
    /\ initializedSignals = 1
    /\ ~hInitializing

\* The handleOperation calls whose manager operation was dispatched and
\* then failed.
FailedOperations ==
  { i \in 1 .. Len(hookOps) : hookOps[i].dispatched /\ hookOps[i].caught }

\* The thread fetches the hook's effect has dispatched to the manager.
ThreadFetches ==
  { i \in 1 .. Len(hookOps) : hookOps[i].op = "getThread" /\ hookOps[i].dispatched }

\* The thread state was set by the effect's fetch, not by createNewThread.
ThreadFetched ==
  /\ hThread # "null"
  /\ \A i \in 1 .. Len(hookOps) : hookOps[i].op # "createNewThread"

\* C31: the hook's error state is non-null only when a manager operation
\* dispatched through the hook has failed; a hook mounted with a thread id
\* none of whose operations failed has dispatched at most one thread
\* fetch, exactly one once the thread has been fetched, and its error
\* state is null.
C31_ErrorOnlyAfterFailedOperation ==
  /\ hError # "null" => FailedOperations # {}
  /\ (hThreadIdArg # Undefined /\ FailedOperations = {}) =>
       /\ hError = "null"
       /\ Cardinality(ThreadFetches) <= 1
       /\ ThreadFetched => Cardinality(ThreadFetches) = 1

====
